---------------------------- MODULE Spec2Model ----------------------------
(***************************************************************************)
(* Rule interpretation engine of Decision_engine/engine: the rule catalog  *)
(* (RuleRegistry), the dynamic rule evaluator (RuleEvaluator) and the risk *)
(* aggregation (build_risks).                                              *)
(*                                                                         *)
(* Numbers are exact rationals n/d (Python floats without rounding error). *)
(* An expression string is the sequence of its tokens, written with one    *)
(* blank between the tokens of an arithmetic expression and none inside a  *)
(* dotted path or a bracket access.                                        *)
(***************************************************************************)
EXTENDS Integers, Sequences, FiniteSets, TLC

\* ------------------------------------------------------------------ bounds
\* Longest catalog source (number of rule records in the JSON document).
MaxRules == 2
\* evaluate_all calls made on one RuleEvaluator.
MaxCalls == 2
\* get_rule_registry calls that construct a RuleRegistry.
MaxLoads == 2
\* Longest list of rule outcomes handed directly to build_risks.
MaxTriggers == 2
\* the children of a logical_and condition
MaxChildren == 2
\* the bands of a banded, the rules of a threshold severity definition
MaxBands == 2
\* the parameters of a rule
MaxParams == 2
\* the rule outcomes and the risk items handed to build_recommendations
MaxOutcomes == 2
MaxRisks == 2

\* ------------------------------------------------------------------ values
\* Python values: None, numbers (bool included, as in Python), str, dict.
NoneV == [t |-> "none", n |-> 0, d |-> 1, s |-> "", m |-> <<>>]

Abs(x) == IF x < 0 THEN -x ELSE x

RECURSIVE GCD(_, _)
GCD(a, b) == IF b = 0 THEN a ELSE GCD(b, a % b)

\* The number n/d in lowest terms with a positive denominator.
Num(n, d) ==
    LET g == GCD(Abs(n), Abs(d))
        sgn == IF d < 0 THEN -1 ELSE 1
    IN [t |-> "num", n |-> sgn * (n \div g), d |-> sgn * (d \div g), s |-> "", m |-> <<>>]

Int2V(i) == [t |-> "num", n |-> i, d |-> 1, s |-> "", m |-> <<>>]
Str(x) == [t |-> "str", n |-> 0, d |-> 1, s |-> x, m |-> <<>>]
Bool(b) == [t |-> "bool", n |-> (IF b THEN 1 ELSE 0), d |-> 1, s |-> "", m |-> <<>>]
Dict(f) == [t |-> "dict", n |-> 0, d |-> 1, s |-> "", m |-> f]

IsNone(v) == v.t = "none"
\* isinstance(v, (int, float)): bool is a subclass of int.
IsNumber(v) == v.t \in {"num", "bool"}
\* Python truthiness: `not v`.
Falsy(v) ==
    \/ v.t = "none"
    \/ v.t \in {"num", "bool"} /\ v.n = 0
    \/ v.t = "str" /\ v.s = ""
    \/ v.t = "dict" /\ DOMAIN v.m = {}

RatLess(a, b) == a.n * b.d < b.n * a.d
RatEq(a, b) == a.n * b.d = b.n * a.d
RatLeq(a, b) == a.n * b.d <= b.n * a.d

\* Numerals that occur in expression strings and in matched text, with the
\* number float() gives for each.
NumeralValue ==
    [x \in {"0", "1", "45", "100", "0.5"} |->
        CASE x = "0" -> Int2V(0)
          [] x = "1" -> Int2V(1)
          [] x = "45" -> Int2V(45)
          [] x = "100" -> Int2V(100)
          [] x = "0.5" -> Num(1, 2)]

Numerals == DOMAIN NumeralValue
\* Tokens whose text holds the character '.'.
DotTokens == {".", "0.5"}
ArithTokens == {"+", "-", "*", "/", "(", ")"}


\* ------------------------------------------------------------- expressions
\* An expression of the catalog: a JSON number or bool (already typed), or a
\* string, held as its token sequence.
Lit(v) == [k |-> "lit", v |-> v, toks |-> <<>>]
Expr(toks) == [k |-> "str", v |-> NoneV, toks |-> toks]

IsName(tok) == tok \notin ArithTokens \cup DotTokens \cup Numerals \cup {"[", "]"}

\* dict.get(key): None for a missing key.
DictGet(f, key) == IF key \in DOMAIN f THEN f[key] ELSE NoneV

Has(toks, set) == \E i \in 1..Len(toks) : toks[i] \in set
IndexOf(toks, tok) == CHOOSE i \in 1..Len(toks) : toks[i] = tok /\ \A j \in 1..(i - 1) : toks[j] # tok

\* float(text) of an extracted string, or the string itself (ValueError).
FloatOrSelf(text) == IF text \in Numerals THEN NumeralValue[text] ELSE Str(text)

\* expr.split('.') of a dotted path name(.name)* : the names; any other token
\* sequence has a part that is no key of any dict, marked by <<>>.
IsDottedPath(toks) ==
    /\ Len(toks) % 2 = 1
    /\ \A i \in 1..Len(toks) : IF i % 2 = 1 THEN IsName(toks[i]) ELSE toks[i] = "."

RECURSIVE Descend(_, _, _)
\* The loop of the nested access: value is a dict, parts[i..] remain.
Descend(value, toks, i) ==
    IF i > Len(toks) THEN value
    ELSE IF value.t # "dict" THEN NoneV
    ELSE LET next == DictGet(value.m, toks[i])
         IN IF IsNone(next) THEN NoneV ELSE Descend(next, toks, i + 2)

\* str(context[key]) as a dict key: the text of a string, the numeral of a
\* number (no numeral of the model is a key of any dict).
KeyText(v) == IF v.t = "str" THEN v.s ELSE "?"

\* The key between the first '[' and the first ']' after the base; a key of
\* several tokens is no key of any dict of the model.
BracketKey(toks, i, j) == IF j = i + 2 THEN toks[i + 1] ELSE "?"

\* Simple bracket access base[key], for an expression with '[' and ']' and
\* no arithmetic character.
BracketAccess(toks, context) ==
    LET i == IndexOf(toks, "[")
        j == IndexOf(toks, "]")
        base_value == IF i = 2 THEN DictGet(context, toks[1]) ELSE NoneV
        raw == IF j > i THEN BracketKey(toks, i, j) ELSE "?"
        key == IF raw \in DOMAIN context THEN context[raw] ELSE Str(raw)
    IN IF IsNone(base_value) THEN NoneV
       ELSE IF base_value.t = "dict" /\ key.t = "str" THEN DictGet(base_value.m, key.s)
       ELSE NoneV

\* ---- arithmetic: items are operators, names and literal numbers
OpItem(tok) == [k |-> "op", v |-> NoneV, s |-> tok]
NameItem(tok) == [k |-> "name", v |-> NoneV, s |-> tok]
LitItem(v) == [k |-> "lit", v |-> v, s |-> ""]

\* replace_bracket: the text put in place of base[key].
ReplaceBracket(base, raw, context) ==
    LET base_value == DictGet(context, base)
        key == IF raw \in DOMAIN context THEN KeyText(context[raw]) ELSE raw
        val == IF key \in DOMAIN base_value.m THEN base_value.m[key] ELSE Int2V(0)
    IN IF IsNone(base_value) THEN LitItem(Int2V(0))
       ELSE IF base_value.t = "dict"
            THEN (IF val.t = "str" THEN NameItem(val.s) ELSE LitItem(val))
       ELSE LitItem(Int2V(0))

FirstClose(toks, i) ==
    IF \E j \in (i + 1)..Len(toks) : toks[j] = "]"
    THEN CHOOSE j \in (i + 1)..Len(toks) : toks[j] = "]" /\ \A h \in (i + 1)..(j - 1) : toks[h] # "]"
    ELSE 0

RECURSIVE Items(_, _, _)
\* re.sub(bracket_pattern, replace_bracket, expr) followed by tokenizing.
Items(toks, i, context) ==
    IF i > Len(toks) THEN <<>>
    ELSE LET tok == toks[i]
             close == IF i + 1 <= Len(toks) /\ toks[i + 1] = "[" THEN FirstClose(toks, i + 1) ELSE 0
         IN IF (IsName(tok) \/ tok \in Numerals \ DotTokens) /\ close > i + 2
            THEN <<ReplaceBracket(tok, BracketKey(toks, i + 1, close), context)>>
                    \o Items(toks, close + 1, context)
            ELSE IF tok \in Numerals THEN <<LitItem(NumeralValue[tok])>> \o Items(toks, i + 1, context)
            ELSE IF IsName(tok) THEN <<NameItem(tok)>> \o Items(toks, i + 1, context)
            ELSE <<OpItem(tok)>> \o Items(toks, i + 1, context)

Fail == [ok |-> FALSE, val |-> NoneV, pos |-> 0]
Ok(v, p) == [ok |-> TRUE, val |-> v, pos |-> p]

\* One binary operation of Python on two values; numbers only (TypeError and
\* ZeroDivisionError give Fail).
Arith(op, a, b, p) ==
    IF ~(IsNumber(a) /\ IsNumber(b)) THEN Fail
    ELSE CASE op = "+" -> Ok(Num(a.n * b.d + b.n * a.d, a.d * b.d), p)
           [] op = "-" -> Ok(Num(a.n * b.d - b.n * a.d, a.d * b.d), p)
           [] op = "*" -> Ok(Num(a.n * b.n, a.d * b.d), p)
           [] op = "/" -> IF b.n = 0 THEN Fail ELSE Ok(Num(a.n * b.d, a.d * b.n), p)

IsOp(items, p, ops) == p <= Len(items) /\ items[p].k = "op" /\ items[p].s \in ops

RECURSIVE ParseSum(_, _, _), ParseSumRest(_, _, _, _), ParseTerm(_, _, _),
          ParseTermRest(_, _, _, _), ParseFactor(_, _, _), FactorOf(_, _, _, _)

\* The value x under the name the operator F gives it.
Bind(x, F(_)) == F(x)

\* sum := term (('+' | '-') term)*
ParseSum(items, p, context) ==
    Bind(ParseTerm(items, p, context),
         LAMBDA t : IF t.ok THEN ParseSumRest(items, t.pos, t.val, context) ELSE Fail)

ParseSumRest(items, p, acc, context) ==
    IF IsOp(items, p, {"+", "-"})
    THEN Bind(ParseTerm(items, p + 1, context),
              LAMBDA t : Bind(IF t.ok THEN Arith(items[p].s, acc, t.val, t.pos) ELSE Fail,
                              LAMBDA r : IF r.ok THEN ParseSumRest(items, r.pos, r.val, context)
                                         ELSE Fail))
    ELSE Ok(acc, p)

\* term := factor (('*' | '/') factor)*
ParseTerm(items, p, context) ==
    Bind(ParseFactor(items, p, context),
         LAMBDA f : IF f.ok THEN ParseTermRest(items, f.pos, f.val, context) ELSE Fail)

ParseTermRest(items, p, acc, context) ==
    IF IsOp(items, p, {"*", "/"})
    THEN Bind(ParseFactor(items, p + 1, context),
              LAMBDA f : Bind(IF f.ok THEN Arith(items[p].s, acc, f.val, f.pos) ELSE Fail,
                              LAMBDA r : IF r.ok THEN ParseTermRest(items, r.pos, r.val, context)
                                         ELSE Fail))
    ELSE Ok(acc, p)

\* -x, +x
Signed(sign, f) ==
    IF ~f.ok \/ ~IsNumber(f.val) THEN Fail
    ELSE IF sign = "-" THEN Ok(Num(-f.val.n, f.val.d), f.pos)
    ELSE Ok(Num(f.val.n, f.val.d), f.pos)

\* ( sum )
Closed(items, e) == IF e.ok /\ IsOp(items, e.pos, {")"}) THEN Ok(e.val, e.pos + 1) ELSE Fail

\* The item a factor starts with decides it.
FactorOf(items, p, it, context) ==
    IF it.k = "lit" THEN Ok(it.v, p + 1)
    ELSE IF it.k = "name"
         THEN (IF it.s \in DOMAIN context THEN Ok(context[it.s], p + 1) ELSE Fail)
    ELSE IF it.s \in {"+", "-"} THEN Signed(it.s, ParseFactor(items, p + 1, context))
    ELSE IF it.s = "(" THEN Closed(items, ParseSum(items, p + 1, context))
    ELSE Fail

\* factor := ('+' | '-') factor | name | number | '(' sum ')'
ParseFactor(items, p, context) ==
    IF p > Len(items) THEN Fail ELSE FactorOf(items, p, items[p], context)

\* A variant of the arithmetic branch without its except clause: the
\* exception of eval leaves _resolve_expression.
EvalArithmeticUncaught(toks, context) ==
    LET items == Items(toks, 1, context)
        r == ParseSum(items, 1, context)
    IN IF r.ok /\ r.pos = Len(items) + 1 THEN r.val
       ELSE [t |-> "exc", n |-> 0, d |-> 1, s |-> "", m |-> <<>>]

\* eval(processed_expr, {"__builtins__": {}}, context), None on any exception.
EvalArithmetic(toks, context) ==
    LET items == Items(toks, 1, context)
        r == ParseSum(items, 1, context)
    IN IF r.ok /\ r.pos = Len(items) + 1 THEN r.val ELSE NoneV

\* A variant of the resolver that looks a name up in the context before the
\* extracted values.
resolve_context_first(expr, context, extracted) ==
    IF expr.k = "lit" THEN expr.v
    ELSE LET toks == expr.toks
         IN IF toks = <<>> THEN NoneV
            ELSE IF Len(toks) = 1 /\ toks[1] \in DOMAIN context THEN context[toks[1]]
            ELSE IF Len(toks) = 1 /\ toks[1] \in DOMAIN extracted THEN FloatOrSelf(extracted[toks[1]])
            ELSE IF Has(toks, DotTokens) /\ ~Has(toks, {"["})
                 THEN (IF IsDottedPath(toks) THEN Descend(Dict(context), toks, 1) ELSE NoneV)
            ELSE IF Has(toks, {"["}) /\ Has(toks, {"]"}) /\ ~Has(toks, ArithTokens)
                 THEN BracketAccess(toks, context)
            ELSE EvalArithmetic(toks, context)

\* RuleEvaluator._resolve_expression
resolve_expression(expr, context, extracted) ==
    IF expr.k = "lit" THEN expr.v
    ELSE LET toks == expr.toks
         IN IF toks = <<>> THEN NoneV
            ELSE IF Len(toks) = 1 /\ toks[1] \in DOMAIN extracted THEN FloatOrSelf(extracted[toks[1]])
            ELSE IF Len(toks) = 1 /\ toks[1] \in DOMAIN context THEN context[toks[1]]
            ELSE IF Has(toks, DotTokens) /\ ~Has(toks, {"["})
                 THEN (IF IsDottedPath(toks) THEN Descend(Dict(context), toks, 1) ELSE NoneV)
            ELSE IF Has(toks, {"["}) /\ Has(toks, {"]"}) /\ ~Has(toks, ArithTokens)
                 THEN BracketAccess(toks, context)
            ELSE EvalArithmetic(toks, context)

\* ----------------------------------------------------------------- context
\* DEFAULTS of engine/config.py, the entries the context carries.
persona_min_savings ==
    Dict([gig_worker |-> Num(1, 4), salaried |-> Num(1, 5), default |-> Num(1, 5)])
deficit_bands == Dict([low |-> Num(1, 20), med |-> Num(3, 20)])

\* `x or default`
OrElse(x, default) == IF Falsy(x) THEN default ELSE x
\* A variant of the conditional default that keeps an absent value.
IfNoneKept(x, default) == x

\* `x if x is not None else default`
IfNone(x, default) == IF IsNone(x) THEN default ELSE x

\* RuleEvaluator._build_context: direct fields, nested objects, config values.
\* (avg_*, net_cashflow and the other optional extended fields are copied or
\* defaulted exactly as the ones kept here.)
build_context(data) ==
    [current_month_income |-> data.current_month_income,
     current_month_expense |-> data.current_month_expense,
     savings_rate |-> OrElse(data.savings_rate, Int2V(0)),
     income_volatility |-> OrElse(data.income_volatility, Int2V(0)),
     category_spend |-> data.category_spend,
     persona |-> OrElse(data.persona_type, Str("default")),
     emergency_fund_balance |-> IfNone(data.emergency_fund_balance, Int2V(0)),
     behavior_metrics |->
        IF IsNone(data.behavior_metrics) THEN Dict(<<>>)
        ELSE Dict([cashflow_stability |-> IfNone(data.behavior_metrics.m.cashflow_stability, Int2V(0)),
                   discretionary_ratio |-> IfNone(data.behavior_metrics.m.discretionary_ratio, Int2V(0)),
                   high_spend_days |-> IfNone(data.behavior_metrics.m.high_spend_days, Int2V(0))]),
     forecast |->
        IF IsNone(data.forecast) THEN Dict(<<>>)
        ELSE Dict([predicted_income_next_month |-> IfNone(data.forecast.m.predicted_income_next_month, Int2V(0)),
                   savings |-> IfNone(data.forecast.m.savings, Int2V(0)),
                   confidence |-> IfNone(data.forecast.m.confidence, Int2V(1))]),
     insights |->
        IF IsNone(data.insights) THEN Dict(<<>>)
        ELSE Dict([top_spend_category |-> OrElse(data.insights.m.top_spend_category, Str("")),
                   category_drift |-> OrElse(data.insights.m.category_drift, Str(""))]),
     persona_min_savings |-> persona_min_savings,
     deficit_bands |-> deficit_bands]

\* A variant of the validation that wants the persona of the input itself.
ValidateNamedPersona(context) ==
    /\ \A field \in {"persona", "current_month_income", "current_month_expense"} :
          field \in DOMAIN context
    /\ context.persona # Str("default")

\* RuleEvaluator._validate_context: a non-empty dict with the required fields.
validate_context(context) ==
    /\ DOMAIN context # {}
    /\ \A field \in {"persona", "current_month_income", "current_month_expense"} :
          field \in DOMAIN context

\* -------------------------------------------------------------- comparison
\* The strings of the model in ascending order (Python compares str by code
\* point).
StrOrder == <<"", "Entertainment", "Entertainment up by 45%", "Food", "critical",
              "default", "food UP BY 1%", "gig_worker", "high", "low", "medium",
              "none", "salaried", "stable">>
StrRank(x) == IF \E i \in 1..Len(StrOrder) : StrOrder[i] = x
              THEN CHOOSE i \in 1..Len(StrOrder) : StrOrder[i] = x
              ELSE 0

\* The order of two values: "lt", "eq", "gt", or "ne" (unequal, not ordered:
\* the ordering operators raise TypeError on them).
Order(a, b) ==
    IF IsNumber(a) /\ IsNumber(b)
    THEN (IF RatEq(a, b) THEN "eq" ELSE IF RatLess(a, b) THEN "lt" ELSE "gt")
    ELSE IF a.t = "str" /\ b.t = "str"
    THEN (IF a.s = b.s THEN "eq" ELSE IF StrRank(a.s) < StrRank(b.s) THEN "lt" ELSE "gt")
    ELSE IF a = b THEN "eq" ELSE "ne"

\* Whether Python can order the two values at all (else > >= < <= raise).
Orderable(a, b) == (IsNumber(a) /\ IsNumber(b)) \/ (a.t = "str" /\ b.t = "str")

\* RuleEvaluator._compare: TypeError and an unknown operator give False.
compare(left, op, right) ==
    LET o == Order(left, right)
    IN CASE op = ">" -> Orderable(left, right) /\ o = "gt"
         [] op = ">=" -> Orderable(left, right) /\ o \in {"gt", "eq"}
         [] op = "<" -> Orderable(left, right) /\ o = "lt"
         [] op = "<=" -> Orderable(left, right) /\ o \in {"lt", "eq"}
         [] op = "==" -> o = "eq"
         [] op = "!=" -> o # "eq"
         [] OTHER -> FALSE

\* -------------------------------------------------------------- conditions
\* re.search(pattern, text, re.IGNORECASE) on the patterns and texts of the
\* model: the capture groups of the match, <<"nomatch">> or <<"error">> (the
\* pattern does not compile).
PatDrift == "(\\w+) up by (\\d+)%"
PatWord == "(\\w+) up"
PatBad == "("
PatLoose == "(.*)up by(.*)%"

re_search(pattern, text) ==
    CASE pattern = PatBad -> [valid |-> FALSE, matched |-> FALSE, groups |-> <<>>]
      [] pattern = PatDrift /\ text = "Entertainment up by 45%" ->
            [valid |-> TRUE, matched |-> TRUE, groups |-> <<"Entertainment", "45">>]
      [] pattern = PatDrift /\ text = "food UP BY 1%" ->
            [valid |-> TRUE, matched |-> TRUE, groups |-> <<"food", "1">>]
      [] pattern = PatWord /\ text = "Entertainment up by 45%" ->
            [valid |-> TRUE, matched |-> TRUE, groups |-> <<"Entertainment">>]
      [] pattern = PatWord /\ text = "food UP BY 1%" ->
            [valid |-> TRUE, matched |-> TRUE, groups |-> <<"food">>]
      [] pattern = PatLoose /\ text = "Entertainment up by 45%" ->
            [valid |-> TRUE, matched |-> TRUE, groups |-> <<"Entertainment ", " 45">>]
      [] pattern = PatLoose /\ text = "food UP BY 1%" ->
            [valid |-> TRUE, matched |-> TRUE, groups |-> <<"food ", " 1">>]
      [] OTHER -> [valid |-> TRUE, matched |-> FALSE, groups |-> <<>>]

\* dict.update
Update(f, g) == [k \in DOMAIN f \cup DOMAIN g |-> IF k \in DOMAIN g THEN g[k] ELSE f[k]]
EmptyMap == [k \in {} |-> ""]

\* Outcomes of evaluating a condition: (triggered, extracted) or an exception.
CondResult(triggered, extracted) ==
    [raised |-> FALSE, err |-> "", triggered |-> triggered, extracted |-> extracted]
CondRaise(err) == [raised |-> TRUE, err |-> err, triggered |-> FALSE, extracted |-> EmptyMap]

\* str.strip() on the capture groups of the model.
Strip(x) ==
    CASE x = "Entertainment " -> "Entertainment"
      [] x = "food " -> "food"
      [] x = " 45" -> "45"
      [] x = " 1" -> "1"
      [] OTHER -> x

RECURSIVE ExtractGroups(_, _, _)
\* for idx, name in enumerate(extract_names, start=1): IndexError is passed.
ExtractGroups(names, groups, idx) ==
    IF idx > Len(names) THEN EmptyMap
    ELSE IF idx <= Len(groups)
         THEN Update([k \in {names[idx]} |-> Strip(groups[idx])],
                     ExtractGroups(names, groups, idx + 1))
    ELSE ExtractGroups(names, groups, idx + 1)

\* A variant of the threshold check that passes when the extracted field is
\* missing or is no number.
RegexThresholdLenient(thr, extracted) ==
    IF "field" \notin thr.has THEN CondRaise("'field'")
    ELSE IF thr.field \notin DOMAIN extracted THEN CondResult(TRUE, extracted)
    ELSE IF extracted[thr.field] \notin Numerals THEN CondResult(TRUE, extracted)
    ELSE IF "operator" \notin thr.has THEN CondRaise("'operator'")
    ELSE IF "value" \notin thr.has THEN CondRaise("'value'")
    ELSE CondResult(compare(NumeralValue[extracted[thr.field]], thr.operator, thr.value), extracted)

\* The threshold check of a regex_match condition, after a match.
RegexThreshold(thr, extracted) ==
    IF "field" \notin thr.has THEN CondRaise("'field'")
    ELSE IF thr.field \notin DOMAIN extracted THEN CondResult(FALSE, extracted)
    ELSE IF extracted[thr.field] \notin Numerals THEN CondResult(FALSE, extracted)
    ELSE IF "operator" \notin thr.has THEN CondRaise("'operator'")
    ELSE IF "value" \notin thr.has THEN CondRaise("'value'")
    ELSE CondResult(compare(NumeralValue[extracted[thr.field]], thr.operator, thr.value), extracted)

RECURSIVE evaluate_condition(_, _), AndLoop(_, _, _, _), OrLoop(_, _, _)

\* A variant of the iteration that goes on to the next child whether or not
\* child i triggered.
AndStepOver(conds, i, extracted, context, r) ==
    IF r.raised THEN r
    ELSE AndLoop(conds, i + 1, Update(extracted, r.extracted), context)

\* One iteration of the loop of logical_and: r is the outcome of child i.
AndStep(conds, i, extracted, context, r) ==
    IF r.raised THEN r
    ELSE IF ~r.triggered THEN CondResult(FALSE, EmptyMap)
    ELSE AndLoop(conds, i + 1, Update(extracted, r.extracted), context)

\* logical_and: the loop over condition["conditions"] from child i on.
AndLoop(conds, i, extracted, context) ==
    IF i > Len(conds) THEN CondResult(TRUE, extracted)
    ELSE AndStep(conds, i, extracted, context, evaluate_condition(conds[i], context))

\* A variant of the iteration that evaluates the children after the one
\* that triggered before it returns.
OrStepAll(conds, i, context, r) ==
    IF r.raised THEN r
    ELSE IF r.triggered
         THEN IF OrLoop(conds, i + 1, context).raised THEN OrLoop(conds, i + 1, context)
              ELSE CondResult(TRUE, r.extracted)
    ELSE OrLoop(conds, i + 1, context)

\* One iteration of the loop of logical_or: r is the outcome of child i.
OrStep(conds, i, context, r) ==
    IF r.raised THEN r
    ELSE IF r.triggered THEN CondResult(TRUE, r.extracted)
    ELSE OrLoop(conds, i + 1, context)

\* logical_or: the loop over condition["conditions"] from child i on.
OrLoop(conds, i, context) ==
    IF i > Len(conds) THEN CondResult(FALSE, EmptyMap)
    ELSE OrStep(conds, i, context, evaluate_condition(conds[i], context))

\* A variant of the comparison without the check of the sides for None.
ComparedUnchecked(left, operator, right) ==
    CondResult(compare(left, operator, right), EmptyMap)

\* comparison, with both sides resolved.
Compared(left, operator, right) ==
    IF IsNone(left) \/ IsNone(right) THEN CondResult(FALSE, EmptyMap)
    ELSE CondResult(compare(left, operator, right), EmptyMap)

\* regex_match after re.search matched: the extraction, then the threshold.
Extracted(condition, extracted) ==
    IF "threshold" \in condition.has THEN RegexThreshold(condition.threshold, extracted)
    ELSE CondResult(TRUE, extracted)

\* regex_match after the search of the pattern in the text.
Searched(condition, match) ==
    IF ~match.valid THEN CondRaise("missing ), unterminated subpattern")
    ELSE IF ~match.matched THEN CondResult(FALSE, EmptyMap)
    ELSE Extracted(condition,
                   ExtractGroups(IF "extract" \in condition.has THEN condition.extract ELSE <<>>,
                                 match.groups, 1))

\* regex_match, with the field resolved.
Matched(condition, text) ==
    IF Falsy(text) THEN CondResult(FALSE, EmptyMap)
    ELSE Searched(condition, re_search(condition.pattern, KeyText(text)))

\* RuleEvaluator._evaluate_condition
evaluate_condition(condition, context) ==
    IF ~condition.obj THEN CondRaise("'str' object has no attribute 'get'")
    ELSE IF "type" \notin condition.has \/ condition.type = "" THEN CondResult(FALSE, EmptyMap)
    ELSE CASE condition.type = "comparison" ->
                IF "left" \notin condition.has THEN CondRaise("'left'")
                ELSE IF "right" \notin condition.has THEN CondRaise("'right'")
                ELSE IF "operator" \notin condition.has THEN CondRaise("'operator'")
                ELSE Compared(resolve_expression(condition.left, context, EmptyMap),
                              condition.operator,
                              resolve_expression(condition.right, context, EmptyMap))
           [] condition.type = "logical_and" ->
                IF "conditions" \notin condition.has THEN CondRaise("'conditions'")
                ELSE AndLoop(condition.conditions, 1, EmptyMap, context)
           [] condition.type = "logical_or" ->
                IF "conditions" \notin condition.has THEN CondRaise("'conditions'")
                ELSE OrLoop(condition.conditions, 1, context)
           [] condition.type = "is_null" ->
                IF "field" \notin condition.has THEN CondRaise("'field'")
                ELSE CondResult(IsNone(resolve_expression(condition.field, context, EmptyMap)), EmptyMap)
           [] condition.type = "field_exists" ->
                IF "field" \notin condition.has THEN CondRaise("'field'")
                ELSE CondResult(~IsNone(resolve_expression(condition.field, context, EmptyMap)), EmptyMap)
           [] condition.type = "regex_match" ->
                IF "field" \notin condition.has THEN CondRaise("'field'")
                ELSE IF "pattern" \notin condition.has THEN CondRaise("'pattern'")
                ELSE Matched(condition, resolve_expression(condition.field, context, EmptyMap))
           [] OTHER -> CondResult(FALSE, EmptyMap)

\* ---------------------------------------------------------------- severity
SevResult(v) == [raised |-> FALSE, err |-> "", sev |-> v]
SevRaise(err) == [raised |-> TRUE, err |-> err, sev |-> NoneV]

\* An exception raised inside the try block of a severity calculation.
CaughtError == [t |-> "exc", n |-> 0, d |-> 1, s |-> "", m |-> <<>>]

RECURSIVE BandLoop(_, _, _)
\* A variant of the loop that gives "low" when no band matches.
BandLoopLow(bands, i, metric_value) ==
    IF i > Len(bands) THEN Str("low")
    ELSE LET band == bands[i]
         IN IF "threshold" \notin band.has THEN CaughtError
            ELSE IF IsNone(band.threshold)
                 THEN (IF "severity" \in band.has THEN band.severity ELSE CaughtError)
            ELSE IF ~Orderable(metric_value, band.threshold) THEN CaughtError
            ELSE IF Order(metric_value, band.threshold) \in {"gt", "eq"}
                 THEN (IF "severity" \in band.has THEN band.severity ELSE CaughtError)
            ELSE BandLoop(bands, i + 1, metric_value)

\* for band in bands: the first band whose threshold is None or <= the metric;
\* a missing key (KeyError) or unorderable values (TypeError) give "error".
BandLoop(bands, i, metric_value) ==
    IF i > Len(bands)
    THEN (IF bands = <<>> THEN Str("low")
          ELSE IF "severity" \in bands[Len(bands)].has THEN bands[Len(bands)].severity
          ELSE CaughtError)
    ELSE LET band == bands[i]
         IN IF "threshold" \notin band.has THEN CaughtError
            ELSE IF IsNone(band.threshold)
                 THEN (IF "severity" \in band.has THEN band.severity ELSE CaughtError)
            ELSE IF ~Orderable(metric_value, band.threshold) THEN CaughtError
            ELSE IF Order(metric_value, band.threshold) \in {"gt", "eq"}
                 THEN (IF "severity" \in band.has THEN band.severity ELSE CaughtError)
            ELSE BandLoop(bands, i + 1, metric_value)

\* RuleEvaluator._eval_threshold_condition on a condition string held as its
\* tokens (operator, then the text after it): "true", "false", or "raise"
\* (TypeError of an ordering operator, which only the caller catches).
eval_threshold_condition(value, condition) ==
    IF condition = <<>> THEN "false"
    ELSE IF condition[1] \notin {">=", ">", "<=", "<", "==", "!="} THEN "false"
    ELSE IF Len(condition) # 2 \/ condition[2] \notin Numerals THEN "false"
    ELSE LET threshold == NumeralValue[condition[2]]
         IN IF condition[1] \in {">=", ">", "<=", "<"} /\ ~Orderable(value, threshold) THEN "raise"
            ELSE IF compare(value, condition[1], threshold) THEN "true" ELSE "false"

RECURSIVE ThresholdLoop(_, _, _)
\* for rule in rules: first match wins, "low" when none matches.
ThresholdLoop(rules, i, metric_value) ==
    IF i > Len(rules) THEN Str("low")
    ELSE IF "condition" \notin rules[i].has THEN CaughtError
    ELSE LET r == eval_threshold_condition(metric_value, rules[i].condition)
         IN IF r = "raise" THEN CaughtError
            ELSE IF r = "true"
                 THEN (IF "severity" \in rules[i].has THEN rules[i].severity ELSE CaughtError)
            ELSE ThresholdLoop(rules, i + 1, metric_value)

\* A variant of the handler that lets the exception through.
Uncaught(v) == v

\* except Exception: return "low"
Caught(v) == IF v.t = "exc" THEN Str("low") ELSE v

\* type "banded", with the metric resolved.
BandedOn(severity_def, metric_value) ==
    IF IsNone(metric_value) THEN SevResult(Str("low"))
    ELSE IF "bands" \notin severity_def.has THEN SevResult(Str("low"))
    ELSE SevResult(Caught(BandLoop(severity_def.bands, 1, metric_value)))

\* type "threshold", with the metric resolved.
ThresholdOn(severity_def, metric_value) ==
    IF IsNone(metric_value) THEN SevResult(Str("low"))
    ELSE IF "rules" \notin severity_def.has THEN SevResult(Str("low"))
    ELSE SevResult(Caught(ThresholdLoop(severity_def.rules, 1, metric_value)))

\* RuleEvaluator._calculate_severity
calculate_severity(severity_def, context, extracted) ==
    IF ~severity_def.obj THEN SevRaise("'str' object has no attribute 'get'")
    ELSE IF "type" \notin severity_def.has THEN SevResult(Str("medium"))
    ELSE CASE severity_def.type = "fixed" ->
                SevResult(IF "value" \in severity_def.has THEN severity_def.value ELSE Str("medium"))
           [] severity_def.type = "banded" ->
                IF "metric" \notin severity_def.has THEN SevResult(Str("low"))
                ELSE BandedOn(severity_def,
                              resolve_expression(severity_def.metric, context, extracted))
           [] severity_def.type = "threshold" ->
                IF "metric" \notin severity_def.has THEN SevResult(Str("low"))
                ELSE ThresholdOn(severity_def,
                                 resolve_expression(severity_def.metric, context, extracted))
           [] OTHER -> SevResult(Str("medium"))

\* ------------------------------------------------------ params and message
\* A variant of the assignment that keeps a parameter resolved to None.
WithParamKept(name, value, rest) ==
    [k \in {name} \cup DOMAIN rest |-> IF k = name THEN value ELSE rest[k]]

\* evaluated[param_name] = value, unless value is None.
WithParam(name, value, rest) ==
    IF IsNone(value) THEN rest
    ELSE [k \in {name} \cup DOMAIN rest |-> IF k = name THEN value ELSE rest[k]]

RECURSIVE ParamLoop(_, _, _, _)
\* RuleEvaluator._evaluate_params: params is the list of (name, expression)
\* of the JSON object; a parameter that resolves to None is left out.
ParamLoop(params, i, context, extracted) ==
    IF i > Len(params) THEN [k \in {} |-> NoneV]
    ELSE WithParam(params[i].name, resolve_expression(params[i].expr, context, extracted),
                   ParamLoop(params, i + 1, context, extracted))

evaluate_params(params, context, extracted) == ParamLoop(params, 1, context, extracted)

\* A message is a list of pieces: text, a placeholder {name}, a percentage
\* placeholder {name_pct}, or a substituted value (standing for str(value)).
Text(x) == [k |-> "text", s |-> x, v |-> NoneV]
Placeholder(name) == [k |-> "ph", s |-> name, v |-> NoneV]
PctPlaceholder(name) == [k |-> "pct", s |-> name, v |-> NoneV]
Shown(v) == [k |-> "val", s |-> "", v |-> v]

\* int(value * 100): truncation towards zero.
Pct(v) == LET x == v.n * 100
          IN Int2V(IF x >= 0 THEN x \div v.d ELSE -((-x) \div v.d))

\* RuleEvaluator._format_message: all_values = {**params, **extracted}.
format_message(template, params, extracted) ==
    LET value(name) == IF name \in DOMAIN extracted THEN Str(extracted[name]) ELSE params[name]
        known(name) == name \in DOMAIN params \cup DOMAIN extracted
    IN [i \in 1..Len(template) |->
          LET piece == template[i]
          IN IF piece.k = "ph" /\ known(piece.s) THEN Shown(value(piece.s))
             ELSE IF piece.k = "pct" /\ known(piece.s) /\ IsNumber(value(piece.s))
                  THEN Shown(Pct(value(piece.s)))
             ELSE piece]

\* ------------------------------------------------------------ rule outcomes
NoReason == [none |-> TRUE, msg |-> <<>>]
Reason(msg) == [none |-> FALSE, msg |-> msg]

\* models.RuleTrigger, with the defaults of its optional fields.
RuleTrigger(rule_id, triggered, severity, weight, params, reason, data_refs) ==
    [rule_id |-> rule_id, triggered |-> triggered, severity |-> severity, weight |-> weight,
     params |-> params, reason |-> reason, data_refs |-> data_refs]

NotTriggered(rule_id) ==
    RuleTrigger(rule_id, FALSE, NoneV, Int2V(1), [k \in {} |-> NoneV], NoReason, <<>>)

\* A variant of the validation that accepts any severity.
AnyTrigger(severity, weight) == IsNumber(weight)

\* The validation pydantic runs when a RuleTrigger is constructed:
\* severity: Optional[Literal["low", "medium", "high"]], weight: float.
ValidTrigger(severity, weight) ==
    /\ severity \in {NoneV, Str("low"), Str("medium"), Str("high")}
    /\ IsNumber(weight)

RuleOk(trigger) == [raised |-> FALSE, err |-> "", trigger |-> trigger]
RuleRaise(rule_id, err) == [raised |-> TRUE, err |-> err, trigger |-> NotTriggered(rule_id)]

\* `if not severity: severity = "medium"`
SeverityOrDefault(severity) == IF Falsy(severity) THEN Str("medium") ELSE severity

\* Step 6 of _evaluate_rule: the RuleTrigger of a rule that triggered.
Triggered(rule_def, severity, params, message) ==
    IF ~ValidTrigger(severity, rule_def.weight)
    THEN RuleRaise(rule_def.id, "validation error for RuleTrigger")
    ELSE RuleOk(RuleTrigger(rule_def.id, TRUE, severity, rule_def.weight, params,
                            Reason(message), rule_def.data_refs))

\* Steps 3 to 5 of _evaluate_rule, with severity and params computed.
Calculated(rule_def, sv, params, extracted) ==
    IF sv.raised THEN RuleRaise(rule_def.id, sv.err)
    ELSE Triggered(rule_def, SeverityOrDefault(sv.sev), params,
                   format_message(rule_def.message_template, params, extracted))

\* Step 2 of _evaluate_rule, with the condition evaluated.
Evaluated(rule_def, context, c) ==
    IF c.raised THEN RuleRaise(rule_def.id, c.err)
    ELSE IF ~c.triggered THEN RuleOk(NotTriggered(rule_def.id))
    ELSE Calculated(rule_def, calculate_severity(rule_def.severity, context, c.extracted),
                    evaluate_params(rule_def.params, context, c.extracted), c.extracted)

\* Step 1 of _evaluate_rule, with the context built.
Validated(rule_def, context) ==
    IF ~validate_context(context) THEN RuleOk(NotTriggered(rule_def.id))
    ELSE Evaluated(rule_def, context, evaluate_condition(rule_def.condition, context))

\* RuleEvaluator._evaluate_rule: the outcome of one rule, or the exception it
\* re-raises.
evaluate_rule(rule_def, data) == Validated(rule_def, build_context(data))

\* ----------------------------------------------------------------- catalog
\* Keys of a rule record that _load_registry reads with rule_dict[...], in the
\* order it reads them (a missing one raises KeyError).
RequiredKeys == <<"id", "bucket", "name", "condition", "severity", "message_template">>

MissingKey(rule_dict) ==
    IF \E i \in 1..Len(RequiredKeys) : RequiredKeys[i] \notin rule_dict.has
    THEN RequiredKeys[CHOOSE i \in 1..Len(RequiredKeys) :
                        /\ RequiredKeys[i] \notin rule_dict.has
                        /\ \A j \in 1..(i - 1) : RequiredKeys[j] \in rule_dict.has]
    ELSE ""

\* RuleDefinition(...) in RuleRegistry._load_registry: rule_dict.get(key,
\* default) for the optional keys.
RuleDefinition(rule_dict) ==
    [id |-> rule_dict.id,
     bucket |-> rule_dict.bucket,
     name |-> rule_dict.name,
     enabled |-> IF "enabled" \in rule_dict.has THEN rule_dict.enabled ELSE TRUE,
     priority |-> IF "priority" \in rule_dict.has THEN rule_dict.priority ELSE 5,
     weight |-> IF "weight" \in rule_dict.has THEN rule_dict.weight ELSE Int2V(1),
     condition |-> rule_dict.condition,
     severity |-> rule_dict.severity,
     params |-> IF "params" \in rule_dict.has THEN rule_dict.params ELSE <<>>,
     message_template |-> rule_dict.message_template,
     data_refs |-> IF "data_refs" \in rule_dict.has THEN rule_dict.data_refs ELSE <<>>,
     recommendation_id |-> IF "recommendation_id" \in rule_dict.has
                           THEN rule_dict.recommendation_id ELSE ""]

\* A variant of the sort that is not stable: r goes before the rules of its
\* own priority.
InsertBeforeEqual(sorted, r) ==
    LET k == Cardinality({i \in 1..Len(sorted) : sorted[i].priority < r.priority})
    IN SubSeq(sorted, 1, k) \o <<r>> \o SubSeq(sorted, k + 1, Len(sorted))

\* sorted(..., key=lambda x: x.priority) is stable: r goes after every rule
\* already placed whose priority is not greater.
InsertByPriority(sorted, r) ==
    LET k == Cardinality({i \in 1..Len(sorted) : sorted[i].priority <= r.priority})
    IN SubSeq(sorted, 1, k) \o <<r>> \o SubSeq(sorted, k + 1, Len(sorted))

RECURSIVE SortedByPriority(_, _)
SortedByPriority(rules, n) ==
    IF n = 0 THEN <<>> ELSE InsertByPriority(SortedByPriority(rules, n - 1), rules[n])

IsEnabled(r) == r.enabled

\* RuleRegistry.get_enabled_rules
get_enabled_rules(rules) ==
    LET enabled == SelectSeq(rules, IsEnabled)
    IN SortedByPriority(enabled, Len(enabled))

\* ------------------------------------------------------------------- risks
\* The dimensions, in the order build_risks lists them.
Dimensions == <<"deficit", "overspend", "savings", "volatility", "stability",
                "discretionary", "category_outlier">>

\* dim_map of build_risks; "" for an id the table does not hold.
dim_map(rule_id) ==
    CASE rule_id \in {"R-DEFICIT-01", "R-FCAST-DEF-01", "R-CONSEC-DEF-01",
                      "R-FCAST-DEF-LARGE-01"} -> "deficit"
      [] rule_id \in {"R-OVRSPEND-01", "R-WEEKLY-SPIKE-01", "R-RENT-HIGH-01"} -> "overspend"
      [] rule_id \in {"R-SAVE-LOW-01", "R-EMERG-FUND-01", "R-SAVE-DEPLETE-01",
                      "R-FCAST-SURPLUS-01", "R-BUFFER-WARN-01"} -> "savings"
      [] rule_id \in {"R-VOL-INC-01", "R-INCOME-DROP-01", "R-CASHFLOW-VAR-01"} -> "volatility"
      [] rule_id \in {"R-STAB-LOW-01", "R-LARGE-TXN-01", "R-ZERO-INC-DAYS-01",
                      "R-FCAST-CONF-LOW-01"} -> "stability"
      [] rule_id \in {"R-DISC-HIGH-01", "R-HSD-01"} -> "discretionary"
      [] rule_id \in {"R-CAT-DRIFT-01", "R-TOP-CAT-HEAVY-01", "R-FOOD-HIGH-01",
                      "R-TRANSPORT-HIGH-01", "R-UTILITIES-SPIKE-01", "R-CASH-SPIKE-01",
                      "R-LOAN-EMI-HIGH-01"} -> "category_outlier"
      [] OTHER -> ""

\* A variant of the table in which "medium" counts as "low".
FlatMultiplier(severity) ==
    CASE severity = Str("none") -> 0
      [] severity = Str("high") -> 3
      [] OTHER -> 1

\* risks._severity_to_multiplier: 1.0 for a severity the table does not hold.
severity_to_multiplier(severity) ==
    CASE severity = Str("none") -> 0
      [] severity = Str("low") -> 1
      [] severity = Str("medium") -> 2
      [] severity = Str("high") -> 3
      [] OTHER -> 1

SeverityOrder == <<"none", "low", "medium", "high">>
\* order.index(x); 0 when x is not in the list (ValueError).
SeverityIndex(v) ==
    IF v.t = "str" /\ \E i \in 1..4 : SeverityOrder[i] = v.s
    THEN CHOOSE i \in 1..4 : SeverityOrder[i] = v.s
    ELSE 0

\* A variant of the maximum that keeps the severity seen last.
last_severity(a, b) == b

\* risks._max_severity, for two severities of the order.
max_severity(a, b) == IF SeverityIndex(a) >= SeverityIndex(b) THEN a ELSE b

\* A variant of round that cuts the digits off (towards minus infinity).
Truncate(x, scale) == Num((x.n * scale) \div x.d, scale)

\* round(x, ndigits) with scale = 10^ndigits: to the nearest, ties to even.
Round(x, scale) ==
    LET y == x.n * scale
        q == y \div x.d
        r == y % x.d
        up == (2 * r > x.d) \/ (2 * r = x.d /\ q % 2 = 1)
    IN Num(IF up THEN q + 1 ELSE q, scale)

RatAdd(a, b) == Num(a.n * b.d + b.n * a.d, a.d * b.d)
RatMul(a, k) == Num(a.n * k, a.d)

RECURSIVE WeightedLoop(_, _, _, _, _)
\* The loop of risks._calculate_weighted_score from contributor i on.
WeightedLoop(contributors, i, weighted_score, max_possible_score, severity) ==
    IF i > Len(contributors)
    THEN [raised |-> FALSE, weighted_score |-> weighted_score,
          max_possible_score |-> max_possible_score, max_severity |-> severity]
    ELSE LET contrib == contributors[i]
         IN IF SeverityIndex(contrib.severity) = 0
            THEN [raised |-> TRUE, weighted_score |-> weighted_score,
                  max_possible_score |-> max_possible_score, max_severity |-> severity]
            ELSE WeightedLoop(contributors, i + 1,
                    RatAdd(weighted_score, RatMul(contrib.weight, severity_to_multiplier(contrib.severity))),
                    RatAdd(max_possible_score, RatMul(contrib.weight, 3)),
                    max_severity(severity, contrib.severity))

\* risks._calculate_weighted_score
calculate_weighted_score(contributors) ==
    WeightedLoop(contributors, 1, Int2V(0), Int2V(0), Str("none"))

Contributor(r) == [rule_id |-> r.rule_id, severity |-> r.severity, weight |-> r.weight]

RECURSIVE ContributorsOfAny(_, _, _)
\* A variant of the first loop without its `if not r.triggered: continue`.
ContributorsOfAny(rules, i, dim) ==
    IF i > Len(rules) THEN <<>>
    ELSE IF dim_map(rules[i].rule_id) = dim
         THEN <<Contributor(rules[i])>> \o ContributorsOfAny(rules, i + 1, dim)
         ELSE ContributorsOfAny(rules, i + 1, dim)

RECURSIVE ContributorsOf(_, _, _)
\* The first loop of build_risks: the contributors of one dimension, in the
\* order of the rule list.
ContributorsOf(rules, i, dim) ==
    IF i > Len(rules) THEN <<>>
    ELSE IF rules[i].triggered /\ dim_map(rules[i].rule_id) = dim
         THEN <<Contributor(rules[i])>> \o ContributorsOf(rules, i + 1, dim)
         ELSE ContributorsOf(rules, i + 1, dim)

RECURSIVE ReasonsOf(_, _, _)
\* `if r.reason: reasons.append(r.reason)`
ReasonsOf(rules, i, dim) ==
    IF i > Len(rules) THEN <<>>
    ELSE IF rules[i].triggered /\ dim_map(rules[i].rule_id) = dim
            /\ ~rules[i].reason.none /\ rules[i].reason.msg # <<>>
         THEN <<rules[i].reason.msg>> \o ReasonsOf(rules, i + 1, dim)
         ELSE ReasonsOf(rules, i + 1, dim)

RECURSIVE RefsOf(_, _, _)
RefsOf(rules, i, dim) ==
    IF i > Len(rules) THEN <<>>
    ELSE IF rules[i].triggered /\ dim_map(rules[i].rule_id) = dim
         THEN rules[i].data_refs \o RefsOf(rules, i + 1, dim)
         ELSE RefsOf(rules, i + 1, dim)

RECURSIVE Dedup(_, _)
\* list(dict.fromkeys(refs)): the first occurrence of each, in order.
Dedup(refs, i) ==
    IF i > Len(refs) THEN <<>>
    ELSE IF \E j \in 1..(i - 1) : refs[j] = refs[i] THEN Dedup(refs, i + 1)
    ELSE <<refs[i]>> \o Dedup(refs, i + 1)

\* The RiskItem build_risks makes of a dimension with contributors.
\* (weighted_score / max_possible * 100) if max_possible > 0 else 0
Normalized(weighted_score, max_possible) ==
    IF max_possible.n > 0
    THEN Num(weighted_score.n * max_possible.d * 100, weighted_score.d * max_possible.n)
    ELSE Int2V(0)

\* The RiskItem of a dimension, with its contributors scored.
Aggregated(dim, rules, contributors, w) ==
    [id |-> dim, dimension |-> dim,
     score |-> Round(Normalized(w.weighted_score, w.max_possible_score), 10),
     severity |-> w.max_severity,
     summary |-> <<dim, w.max_severity.s>>,
     reasons |-> ReasonsOf(rules, 1, dim),
     data_refs |-> Dedup(RefsOf(rules, 1, dim), 1),
     contributors |-> contributors,
     weighted_score |-> Round(w.weighted_score, 100),
     max_possible_score |-> Round(w.max_possible_score, 100)]

Scored(dim, rules, contributors) ==
    Aggregated(dim, rules, contributors, calculate_weighted_score(contributors))

\* The RiskItem build_risks makes of a dimension with contributors.
RiskItem(dim, rules) == Scored(dim, rules, ContributorsOf(rules, 1, dim))

RECURSIVE RiskLoopAll(_, _)
\* A variant of the second loop without its `continue`: a dimension without
\* contributors gets a RiskItem too.
RiskLoopAll(rules, i) ==
    IF i > Len(Dimensions) THEN <<>>
    ELSE <<RiskItem(Dimensions[i], rules)>> \o RiskLoopAll(rules, i + 1)

RECURSIVE RiskLoop(_, _)
\* The second loop of build_risks: dimensions without contributors are skipped.
RiskLoop(rules, i) ==
    IF i > Len(Dimensions) THEN <<>>
    ELSE IF ContributorsOf(rules, 1, Dimensions[i]) = <<>> THEN RiskLoop(rules, i + 1)
    ELSE <<RiskItem(Dimensions[i], rules)>> \o RiskLoop(rules, i + 1)

\* risks.build_risks: the list of RiskItem, or the ValueError of a triggered,
\* mapped outcome whose severity is none of the four levels.
build_risks(rules) ==
    IF \E i \in 1..Len(rules) :
            /\ rules[i].triggered
            /\ dim_map(rules[i].rule_id) # ""
            /\ SeverityIndex(rules[i].severity) = 0
    THEN [raised |-> TRUE, items |-> <<>>]
    ELSE [raised |-> FALSE, items |-> RiskLoop(rules, 1)]

\* ---- recommendations.build_recommendations: the reduction recommendations
RatSub(a, b) == Num(a.n * b.d - b.n * a.d, a.d * b.d)
RatTimes(a, b) == Num(a.n * b.n, a.d * b.d)
RatMax(a, b) == IF RatLess(a, b) THEN b ELSE a
RatMin(a, b) == IF RatLess(b, a) THEN b ELSE a

\* recommendations._calculate_smart_cap
calculate_smart_cap(current_spend, income, target_ratio) ==
    LET target_from_income == RatTimes(income, target_ratio)
        gradual_reduction == RatTimes(current_spend, Num(4, 5))
        achievable_target == RatMax(target_from_income, gradual_reduction)
    IN RatMin(current_spend, achievable_target)

\* DEFAULTS["category_thresholds"].get(cat.lower(), 0.15)
category_thresholds(cat) ==
    CASE cat = "Food" -> Num(3, 10)
      [] cat = "Transport" -> Num(1, 5)
      [] cat = "Entertainment" -> Num(3, 20)
      [] cat = "Utilities" -> Num(3, 25)
      [] OTHER -> Num(3, 20)

\* data.category_spend.get(cat, 0)
SpendOf(data, cat) ==
    IF cat \in DOMAIN data.category_spend THEN data.category_spend[cat] ELSE Int2V(0)

\* data.current_month_income or data.avg_monthly_income
IncomeOf(data) == OrElse(data.current_month_income, data.avg_monthly_income)

\* rule_index.get(rule_id): the last outcome of the id, if any.
RuleIndex(rules, rule_id) ==
    LET at == {i \in 1..Len(rules) : rules[i].rule_id = rule_id}
    IN IF at = {} THEN [found |-> FALSE, triggered |-> FALSE, category |-> ""]
       ELSE [found |-> TRUE,
             triggered |-> rules[CHOOSE i \in at : \A j \in at : j <= i].triggered,
             category |-> rules[CHOOSE i \in at : \A j \in at : j <= i].category]

\* The amounts of a reduction recommendation: the spend, the cap, the saving.
Reduction(id, current_spend, cap) ==
    [id |-> id, current |-> current_spend, cap |-> cap, savings |-> RatSub(current_spend, cap)]

\* `if r_drift and r_drift.triggered:` with a category in the params
DriftRecommendation(data, r_drift) ==
    IF r_drift.found /\ r_drift.triggered /\ r_drift.category # ""
    THEN <<Reduction("REC-CAT-AUDIT-01", SpendOf(data, r_drift.category),
                     calculate_smart_cap(SpendOf(data, r_drift.category), IncomeOf(data),
                                         category_thresholds(r_drift.category)))>>
    ELSE <<>>

\* The recommendation of a category rule with a fixed target ratio.
CategoryRecommendation(data, r, id, cat, target_ratio) ==
    IF r.found /\ r.triggered
    THEN <<Reduction(id, SpendOf(data, cat), calculate_smart_cap(SpendOf(data, cat), IncomeOf(data), target_ratio))>>
    ELSE <<>>

\* build_recommendations, its recommendations with a smart cap.
build_recommendations(data, rules) ==
    DriftRecommendation(data, RuleIndex(rules, "R-CAT-DRIFT-01"))
        \o CategoryRecommendation(data, RuleIndex(rules, "R-FOOD-HIGH-01"),
                                   "REC-FOOD-REDUCE-01", "Food", Num(1, 4))
        \o CategoryRecommendation(data, RuleIndex(rules, "R-TRANSPORT-HIGH-01"),
                                   "REC-TRANSPORT-REDUCE-01", "Transport", Num(3, 20))
        \o CategoryRecommendation(data, RuleIndex(rules, "R-ENTERTAINMENT-HIGH-01"),
                                   "REC-ENTERTAINMENT-REDUCE-01", "Entertainment", Num(1, 10))

\* Outcomes of the four rules: triggered or not, the drift with the category
\* its pattern extracted (none, one with a threshold, one without).
ReductionOutcomes ==
    {[rule_id |-> "R-CAT-DRIFT-01", triggered |-> t, category |-> c] :
        t \in BOOLEAN, c \in {"", "Entertainment", "Shopping"}}
      \cup {[rule_id |-> id, triggered |-> t, category |-> ""] :
               id \in {"R-FOOD-HIGH-01", "R-TRANSPORT-HIGH-01", "R-ENTERTAINMENT-HIGH-01"},
               t \in BOOLEAN}

Amounts == {Int2V(0), Int2V(500), Int2V(2000)}

\* Inputs: income 4000 or none this month, category spends below and above
\* the targets, categories without spend.
ReductionInputs ==
    {[current_month_income |-> income, avg_monthly_income |-> Int2V(4000), category_spend |-> spend] :
        income \in {Int2V(0), Int2V(4000)},
        spend \in {<<>>} \cup {[Food |-> f, Entertainment |-> e] : f \in Amounts, e \in Amounts}
                    \cup {[Transport |-> Int2V(1000), Shopping |-> Int2V(500)]}}

\* ---- recommendations.build_recommendations: ids and linked risks
\* The sections of build_recommendations in the order of the code: the rule
\* ids looked up in rule_index, the id of the recommendation appended, and the
\* dimension looked up in risk_index ("" where linked_risks is []).
Section(sources, id, dimension) == [sources |-> sources, id |-> id, dimension |-> dimension]
Sections ==
    <<Section({"R-DEFICIT-01"}, "REC-BALANCE-01", "deficit"),
      Section({"R-SAVE-LOW-01"}, "REC-SAVE-BOOST-01", "savings"),
      Section({"R-VOL-INC-01"}, "REC-BUFFER-01", "volatility"),
      Section({"R-OVRSPEND-01"}, "REC-CAP-01", "overspend"),
      Section({"R-CAT-DRIFT-01"}, "REC-CAT-AUDIT-01", "category_outlier"),
      Section({"R-DISC-HIGH-01", "R-HSD-01"}, "REC-SPEND-ALERT-01", "discretionary"),
      Section({"R-EMERG-FUND-01"}, "REC-EMERG-FUND-01", "savings"),
      Section({"R-RENT-HIGH-01"}, "REC-RENT-REDUCE-01", "overspend"),
      Section({"R-CONSEC-DEF-01"}, "REC-DEFICIT-STREAK-01", "deficit"),
      Section({"R-INCOME-DROP-01"}, "REC-INCOME-DROP-01", "volatility"),
      Section({"R-LOAN-EMI-HIGH-01"}, "REC-LOAN-REFI-01", "category_outlier"),
      Section({"R-FCAST-SURPLUS-01"}, "REC-SURPLUS-INVEST-01", ""),
      Section({"R-FOOD-HIGH-01"}, "REC-FOOD-REDUCE-01", "category_outlier"),
      Section({"R-TRANSPORT-HIGH-01"}, "REC-TRANSPORT-REDUCE-01", "category_outlier"),
      Section({"R-ENTERTAINMENT-HIGH-01"}, "REC-ENTERTAINMENT-REDUCE-01", "discretionary")>>

\* [risk_index[dim].id] if dim in risk_index else [], risk_index holding the
\* last RiskItem of each dimension.
LinkedRisks(risks, dimension) ==
    LET at == {i \in 1..Len(risks) : risks[i].dimension = dimension}
    IN IF at = {} THEN <<>> ELSE <<risks[CHOOSE i \in at : \A j \in at : j <= i].id>>

\* A variant of the test of a section that takes an outcome that did not
\* trigger for one that did.
SectionFound(section, outcomes) ==
    /\ \E id \in section.sources : RuleIndex(outcomes, id).found
    /\ section.id = "REC-CAT-AUDIT-01" => RuleIndex(outcomes, "R-CAT-DRIFT-01").category # ""

\* `if r and r.triggered:` of a section (one of two rules for the spending
\* alert); the drift section also wants a category in the params.
SectionTriggered(section, outcomes) ==
    /\ \E id \in section.sources :
          RuleIndex(outcomes, id).found /\ RuleIndex(outcomes, id).triggered
    /\ section.id = "REC-CAT-AUDIT-01" => RuleIndex(outcomes, "R-CAT-DRIFT-01").category # ""

RECURSIVE AppendLoop(_, _, _)
\* recs.append(Recommendation(id=..., linked_risks=...)) section by section.
AppendLoop(i, risks, outcomes) ==
    IF i > Len(Sections) THEN <<>>
    ELSE (IF SectionTriggered(Sections[i], outcomes)
          THEN <<[id |-> Sections[i].id,
                  linked_risks |-> LinkedRisks(risks, Sections[i].dimension)]>>
          ELSE <<>>) \o AppendLoop(i + 1, risks, outcomes)

\* build_recommendations, the id and the linked_risks of each Recommendation
\* of the list it returns.
recommendation_links(risks, outcomes) == AppendLoop(1, risks, outcomes)

\* Outcomes of source rules of one and of two sections and of a rule without
\* section; risk items, two of them of one dimension.
LinkOutcomes ==
    {[rule_id |-> id, triggered |-> t, category |-> ""] :
        id \in {"R-DEFICIT-01", "R-SAVE-LOW-01", "R-DISC-HIGH-01", "R-HSD-01"}, t \in BOOLEAN}
      \cup {[rule_id |-> "R-CAT-DRIFT-01", triggered |-> TRUE, category |-> c] :
               c \in {"", "Entertainment"}}
      \cup {[rule_id |-> "R-CAT-DRIFT-01", triggered |-> FALSE, category |-> ""],
            [rule_id |-> "R-CUSTOM-01", triggered |-> TRUE, category |-> ""]}

LinkRisks ==
    {[id |-> "RK-DEFICIT", dimension |-> "deficit"], [id |-> "RK-DEFICIT-OLD", dimension |-> "deficit"],
     [id |-> "RK-SAVINGS", dimension |-> "savings"],
     [id |-> "RK-DISCRETIONARY", dimension |-> "discretionary"]}

\* ------------------------------------------------- catalog sources (inputs)
NoExpr == Expr(<<>>)
NoThreshold == [has |-> {}, field |-> "", operator |-> "", value |-> NoneV]

Condition(type, has, left, operator, right, conditions, field, pattern, extract, threshold) ==
    [obj |-> TRUE, has |-> has, type |-> type, left |-> left, operator |-> operator,
     right |-> right, conditions |-> conditions, field |-> field, pattern |-> pattern,
     extract |-> extract, threshold |-> threshold]

Comparison(left, operator, right) ==
    Condition("comparison", {"type", "left", "operator", "right"}, left, operator, right,
              <<>>, NoExpr, "", <<>>, NoThreshold)
\* A comparison whose record lacks "operator".
BrokenComparison(left, right) ==
    Condition("comparison", {"type", "left", "right"}, left, "", right,
              <<>>, NoExpr, "", <<>>, NoThreshold)
And(conditions) ==
    Condition("logical_and", {"type", "conditions"}, NoExpr, "", NoExpr, conditions,
              NoExpr, "", <<>>, NoThreshold)
Or(conditions) ==
    Condition("logical_or", {"type", "conditions"}, NoExpr, "", NoExpr, conditions,
              NoExpr, "", <<>>, NoThreshold)
FieldExists(field) ==
    Condition("field_exists", {"type", "field"}, NoExpr, "", NoExpr, <<>>, field, "",
              <<>>, NoThreshold)
IsNull(field) ==
    Condition("is_null", {"type", "field"}, NoExpr, "", NoExpr, <<>>, field, "",
              <<>>, NoThreshold)
RegexMatch(field, pattern, extract, threshold) ==
    Condition("regex_match", {"type", "field", "pattern", "extract", "threshold"}, NoExpr, "",
              NoExpr, <<>>, field, pattern, extract, threshold)
Threshold(field, operator, value) ==
    [has |-> {"field", "operator", "value"}, field |-> field, operator |-> operator, value |-> value]

SeveritySpec(type, has, value, metric, bands, rules) ==
    [obj |-> TRUE, has |-> has, type |-> type, value |-> value, metric |-> metric,
     bands |-> bands, rules |-> rules]
Fixed(value) == SeveritySpec("fixed", {"type", "value"}, Str(value), NoExpr, <<>>, <<>>)
Banded(metric, bands) == SeveritySpec("banded", {"type", "metric", "bands"}, NoneV, metric, bands, <<>>)
ThresholdSeverity(metric, rules) ==
    SeveritySpec("threshold", {"type", "metric", "rules"}, NoneV, metric, <<>>, rules)
UnknownSeverity == SeveritySpec("weighted", {"type"}, NoneV, NoExpr, <<>>, <<>>)
Band(threshold, severity) ==
    [has |-> {"threshold", "severity"}, threshold |-> threshold, severity |-> Str(severity)]
ThresholdRule(condition, severity) ==
    [has |-> {"condition", "severity"}, condition |-> condition, severity |-> Str(severity)]

AllKeys == {"id", "bucket", "name", "enabled", "priority", "weight", "condition", "severity",
            "params", "message_template", "data_refs", "recommendation_id"}

RuleDict(has, id, enabled, priority, weight, condition, severity, params, message_template) ==
    [has |-> has, id |-> id, bucket |-> "budget", name |-> id, enabled |-> enabled,
     priority |-> priority, weight |-> weight, condition |-> condition, severity |-> severity,
     params |-> params, message_template |-> message_template, data_refs |-> <<id>>,
     recommendation_id |-> ""]

GapExpr == Expr(<<"(", "current_month_expense", "-", "current_month_income", ")", "/",
                  "current_month_income">>)

\* Example 1 of the specification: deficit, banded on the gap.
DeficitRule ==
    RuleDict(AllKeys, "R-DEFICIT-01", TRUE, 1, Int2V(1),
             Comparison(Expr(<<"current_month_expense">>), ">", Expr(<<"current_month_income">>)),
             Banded(GapExpr, <<Band(Num(3, 20), "high"), Band(Num(1, 20), "medium"), Band(NoneV, "low")>>),
             <<[name |-> "gap", expr |-> GapExpr]>>,
             <<Text("Deficit of "), PctPlaceholder("gap"), Text("% of income")>>)

\* A second record with the id of DeficitRule; it triggers on every input.
DuplicateRule ==
    RuleDict(AllKeys, "R-DEFICIT-01", TRUE, 1, Num(1, 2),
             FieldExists(Expr(<<"current_month_income">>)), Fixed("high"), <<>>, <<Text("Income present")>>)

\* Bracket access with a variable key; no "priority" key (default 5).
SavingsRule ==
    RuleDict(AllKeys \ {"priority"}, "R-SAVE-LOW-01", TRUE, 0, Num(1, 2),
             Comparison(Expr(<<"savings_rate">>), "<", Expr(<<"persona_min_savings", "[", "persona", "]">>)),
             Fixed("medium"),
             <<[name |-> "min", expr |-> Expr(<<"persona_min_savings", "[", "persona", "]">>)],
               [name |-> "gone", expr |-> Expr(<<"undefined_field">>)]>>,
             <<Text("Savings below "), Placeholder("min"), Placeholder("gone")>>)

\* A structurally broken condition: evaluating it raises KeyError.
BrokenRule ==
    RuleDict(AllKeys, "R-OVRSPEND-01", TRUE, 1, Int2V(1),
             BrokenComparison(Expr(<<"current_month_expense">>), Lit(Int2V(0))),
             Fixed("high"), <<>>, <<Text("Overspend")>>)

\* A condition on a field the context does not hold.
UndefinedFieldRule ==
    RuleDict(AllKeys, "R-VOL-INC-01", TRUE, 2, Int2V(1),
             Comparison(Expr(<<"undefined_field">>), ">", Lit(Int2V(0))),
             Fixed("low"), <<>>, <<Text("Volatile")>>)

\* Example 4 of the specification: pattern match with threshold, severity by
\* threshold rules on the extracted percentage.
DriftRule ==
    RuleDict(AllKeys, "R-CAT-DRIFT-01", TRUE, 2, Num(1, 2),
             RegexMatch(Expr(<<"insights", ".", "category_drift">>), PatDrift,
                        <<"category", "delta_pct">>, Threshold("delta_pct", ">=", Num(3, 10))),
             ThresholdSeverity(Expr(<<"delta_pct">>),
                               <<ThresholdRule(<<">=", "100">>, "high"), ThresholdRule(<<">", "1">>, "medium")>>),
             <<>>, <<Placeholder("category"), Text(" up by "), Placeholder("delta_pct")>>)

\* A disabled rule that would trigger.
DisabledRule ==
    RuleDict(AllKeys, "R-HSD-01", FALSE, 1, Int2V(1),
             IsNull(Expr(<<"undefined_field">>)), Fixed("low"), <<>>, <<Text("Disabled")>>)

\* A triggering rule whose severity is no level of RuleTrigger, and whose id
\* is in no dimension.
CriticalRule ==
    RuleDict(AllKeys, "R-CUSTOM-01", TRUE, 2, Int2V(1),
             Or(<<Comparison(Expr(<<"undefined_field">>), ">", Lit(Int2V(0))),
                  Comparison(Expr(<<"current_month_income">>), ">", Lit(Int2V(0)))>>),
             Fixed("critical"), <<>>, <<Text("Critical")>>)

\* A triggering rule with an unknown severity type (falls back to "medium").
UnmappedRule ==
    RuleDict(AllKeys, "R-CUSTOM-01", TRUE, 1, Num(1, 250),
             And(<<FieldExists(Expr(<<"persona">>)), IsNull(Expr(<<"behavior_metrics", ".", "missing">>))>>),
             UnknownSeverity, <<>>, <<Text("Custom")>>)

\* A record without "condition": the catalog that holds it is malformed.
MalformedRule ==
    RuleDict(AllKeys \ {"condition"}, "R-RENT-HIGH-01", TRUE, 1, Int2V(1),
             FieldExists(NoExpr), Fixed("low"), <<>>, <<Text("Rent")>>)

RulePool == {DeficitRule, DuplicateRule, SavingsRule, BrokenRule, UndefinedFieldRule,
             DriftRule, DisabledRule, CriticalRule, UnmappedRule, MalformedRule}

RECURSIVE SeqsUpTo(_, _)
\* The sequences over S of length at most n.
SeqsUpTo(S, n) ==
    IF n = 0 THEN {<<>>}
    ELSE LET shorter == SeqsUpTo(S, n - 1)
         IN shorter \cup {Append(q, x) : q \in {p \in shorter : Len(p) = n - 1}, x \in S}

\* The documents the default registry path may hold.
Sources == SeqsUpTo(RulePool, MaxRules)

\* The documents at the paths a caller may name.
CustomSource == <<SavingsRule, DeficitRule>>
PartlyMalformedSource == <<DeficitRule, MalformedRule, SavingsRule>>
Paths == {"None", "custom.json", "malformed.json"}

\* ----------------------------------------------------- normalized inputs
BehaviorMetrics(stability, ratio, days) ==
    Dict([cashflow_stability |-> stability, discretionary_ratio |-> ratio, high_spend_days |-> days])
Insights(top, drift) == Dict([top_spend_category |-> top, category_drift |-> drift])
Forecast(income, savings, confidence) ==
    Dict([predicted_income_next_month |-> income, savings |-> savings, confidence |-> confidence])

NormalizedInput(income, expense, savings_rate, persona_type, category_spend, emergency, behavior_metrics, insights) ==
    [current_month_income |-> income, current_month_expense |-> expense,
     savings_rate |-> savings_rate, persona_type |-> persona_type,
     category_spend |-> category_spend, emergency_fund_balance |-> emergency,
     behavior_metrics |-> behavior_metrics, insights |-> insights,
     income_volatility |-> NoneV, forecast |-> NoneV]

\* Deficit of 25 % of income, every optional field absent.
DeficitInput ==
    NormalizedInput(Int2V(4000), Int2V(5000), NoneV, NoneV, Dict(<<>>), NoneV, NoneV, NoneV)
\* Surplus, gig worker saving 10 %, category drift of 45 %.
DriftInput ==
    NormalizedInput(Int2V(5000), Int2V(4000), Num(1, 10), Str("gig_worker"),
                    Dict([Food |-> Int2V(1500)]), Int2V(1000),
                    BehaviorMetrics(Num(1, 2), NoneV, NoneV),
                    Insights(NoneV, Str("Entertainment up by 45%")))
\* Balanced, salaried saving 30 %, nothing drifting.
BalancedInput ==
    NormalizedInput(Int2V(4000), Int2V(4000), Num(3, 10), Str("salaried"), Dict(<<>>), NoneV,
                    BehaviorMetrics(NoneV, NoneV, Int2V(1)), Insights(Str("Food"), Str("stable")))

Inputs == {DeficitInput, DriftInput, BalancedInput}

\* ------------------------------------------- rule lists given to build_risks
Outcome(rule_id, severity, weight) ==
    RuleTrigger(rule_id, TRUE, severity, weight, [k \in {} |-> NoneV],
                Reason(<<Text(rule_id)>>), <<rule_id>>)

Weights == {Num(-1, 2), Int2V(0), Num(1, 1000), Num(1, 2), Int2V(1)}
Levels == {Str("low"), Str("medium"), Str("high")}

\* Triggered outcomes of two rules of the dimension "savings", of one of
\* "deficit" and of one in no dimension; a triggered outcome built without a
\* severity; the outcomes of a rule that did not trigger.
OutcomePool ==
    {Outcome(id, s, w) : id \in {"R-SAVE-LOW-01", "R-EMERG-FUND-01"}, s \in Levels, w \in Weights}
        \cup {Outcome("R-DEFICIT-01", s, Int2V(1)) : s \in {Str("low"), Str("high")}}
        \cup {Outcome("R-CUSTOM-01", Str("high"), Int2V(1)),
              Outcome("R-SAVE-LOW-01", NoneV, Int2V(1)),
              NotTriggered("R-SAVE-LOW-01"),
              RuleTrigger("R-EMERG-FUND-01", FALSE, Str("low"), Int2V(1), [error |-> Str("KeyError")],
                          Reason(<<Text("Rule evaluation failed: "), Text("KeyError")>>), <<>>)}

RuleLists == SeqsUpTo(OutcomePool, MaxTriggers)

\* ------------------------------------------------------------------- state
VARIABLES
    default_source,     \* the document at the default registry path
    registry_instance,  \* the global _registry_instance
    constructed,        \* history: the RuleRegistry the last call constructed
    load_status,        \* how the last get_rule_registry call ended
    instance_before,    \* history: _registry_instance when that call began
    loads,              \* RuleRegistry constructions so far
    evaluator,          \* the RuleEvaluator: its registry and evaluation_stats
    calls,              \* evaluate_all calls made so far
    pc,                 \* position of the evaluate_all call
    data,               \* its argument
    rules,              \* its local list of enabled rules
    idx,                \* the rule its loop is at
    triggers,           \* its local list of outcomes
    triggered_ids,      \* its local set of triggered ids
    trace,              \* history: what each iteration of the loop did
    result,             \* the list it returned
    risks,              \* build_risks of that list
    prev_run,           \* history: the run before this one, and its results
    risk_rules,         \* a rule list handed directly to build_risks
    risk_result,        \* what build_risks made of it
    fn,                 \* a function called on its own
    args,               \* its arguments
    ret,                \* what it returned or raised
    threads,            \* concurrent eval_rules_dynamic calls: their locals
    evaluators,         \* the RuleEvaluator objects of those calls
    loader,             \* a concurrent get_rule_registry(path) call
    advice              \* a generate_advice_with_llm call

vars == <<default_source, registry_instance, constructed, load_status, instance_before, loads,
          evaluator, calls, pc, data, rules, idx, triggers, triggered_ids, trace, result,
          risks, prev_run, risk_rules, risk_result, fn, args, ret,
          threads, evaluators, loader, advice>>

registry_vars == <<registry_instance, constructed, load_status, instance_before, loads>>
evaluator_vars == <<evaluator, calls>>
call_vars == <<pc, data, rules, idx, triggers, triggered_ids, trace, result, risks, prev_run>>
risk_vars == <<risk_rules, risk_result>>
unit_vars == <<fn, args, ret>>
thread_vars == <<threads, evaluators, loader>>
side_vars == <<unit_vars, thread_vars, advice>>
core_vars == <<default_source, registry_vars, evaluator_vars, call_vars, risk_vars, thread_vars, advice>>

NoRegistry == [none |-> TRUE, path |-> "", rules |-> <<>>]
NotConstructed == [path |-> "", raised |-> FALSE, key |-> "", rules |-> <<>>]
NoEvaluator ==
    [exists |-> FALSE, registry |-> <<>>,
     evaluation_stats |-> [total_rules |-> 0, rules_triggered |-> 0, rules_failed |-> 0]]
NoRisks == [done |-> FALSE, raised |-> FALSE, items |-> <<>>]
NoRun == [valid |-> FALSE, registry |-> <<>>, data |-> DeficitInput, result |-> <<>>, risks |-> NoRisks]

\* The document at a registry path (None is the default path).
FileAt(path) ==
    CASE path = "None" -> default_source
      [] path = "custom.json" -> CustomSource
      [] path = "malformed.json" -> PartlyMalformedSource

RECURSIVE load_skipping(_, _, _)
\* A variant of the loop that leaves out a record lacking a required key and
\* goes on.
load_skipping(source, i, loaded) ==
    IF i > Len(source) THEN [raised |-> FALSE, key |-> "", rules |-> loaded]
    ELSE IF MissingKey(source[i]) # "" THEN load_skipping(source, i + 1, loaded)
    ELSE load_skipping(source, i + 1, Append(loaded, RuleDefinition(source[i])))

RECURSIVE load_registry(_, _, _)
\* The loop of RuleRegistry._load_registry from record i on: the KeyError of
\* the first record that lacks a required key ends it.
load_registry(source, i, loaded) ==
    IF i > Len(source) THEN [raised |-> FALSE, key |-> "", rules |-> loaded]
    ELSE IF MissingKey(source[i]) # ""
         THEN [raised |-> TRUE, key |-> MissingKey(source[i]), rules |-> loaded]
    ELSE load_registry(source, i + 1, Append(loaded, RuleDefinition(source[i])))

\* RuleRegistry(registry_path): self.rules = [], then _load_registry.
RuleRegistry(source) == load_registry(source, 1, <<>>)

NoCall ==
    /\ pc = "idle"
    /\ data = DeficitInput
    /\ rules = <<>>
    /\ idx = 0
    /\ triggers = <<>>
    /\ triggered_ids = {}
    /\ trace = <<>>
    /\ result = <<>>
    /\ risks = NoRisks
    /\ prev_run = NoRun

NoRiskCall == risk_rules = <<>> /\ risk_result = NoRisks

NoReturn == [done |-> FALSE]
NoUnitCall == fn = "" /\ args = <<>> /\ ret = NoReturn
NoThreads == threads = <<>> /\ evaluators = <<>> /\ loader = [pc |-> "none"]
NoAdvice == advice = [pc |-> "none"]
NoSide == NoUnitCall /\ NoThreads /\ NoAdvice

\* ---- get_rule_registry(registry_path)
\* Module import: _registry_instance = None.
InitLoad ==
    /\ default_source \in Sources
    /\ registry_instance = NoRegistry
    /\ constructed = NotConstructed
    /\ load_status = "none"
    /\ instance_before = NoRegistry
    /\ loads = 0
    /\ evaluator = NoEvaluator
    /\ calls = 0
    /\ NoCall
    /\ NoRiskCall
    /\ NoSide

\* The instance exists and no path is given: it is returned as it is.
GetRegistryCached ==
    /\ ~registry_instance.none
    /\ load_status' = "cached"
    /\ constructed' = NotConstructed
    /\ instance_before' = registry_instance
    /\ UNCHANGED <<default_source, registry_instance, loads>>
    /\ UNCHANGED evaluator_vars
    /\ UNCHANGED call_vars
    /\ UNCHANGED risk_vars
    /\ UNCHANGED side_vars

\* RuleRegistry(registry_path) raised KeyError: the call ends before the
\* assignment to _registry_instance.
GetRegistryRaised ==
    /\ loads < MaxLoads
    /\ \E path \in Paths :
          /\ registry_instance.none \/ path # "None"
          /\ \E r \in {RuleRegistry(FileAt(path))} :
                /\ r.raised
                /\ constructed' = [path |-> path, raised |-> TRUE, key |-> r.key,
                                   rules |-> r.rules]
    /\ loads' = loads + 1
    /\ load_status' = "raised"
    /\ instance_before' = registry_instance
    /\ UNCHANGED <<default_source, registry_instance>>
    /\ UNCHANGED evaluator_vars
    /\ UNCHANGED call_vars
    /\ UNCHANGED risk_vars
    /\ UNCHANGED side_vars

\* _registry_instance = RuleRegistry(registry_path)
GetRegistryLoaded ==
    /\ loads < MaxLoads
    /\ \E path \in Paths :
          /\ registry_instance.none \/ path # "None"
          /\ \E r \in {RuleRegistry(FileAt(path))} :
                /\ ~r.raised
                /\ constructed' = [path |-> path, raised |-> FALSE, key |-> "",
                                   rules |-> r.rules]
                /\ registry_instance' = [none |-> FALSE, path |-> path, rules |-> r.rules]
    /\ loads' = loads + 1
    /\ load_status' = "ok"
    /\ instance_before' = registry_instance
    /\ UNCHANGED default_source
    /\ UNCHANGED evaluator_vars
    /\ UNCHANGED call_vars
    /\ UNCHANGED risk_vars
    /\ UNCHANGED side_vars

NextLoad ==
    \/ GetRegistryCached
    \/ GetRegistryRaised
    \/ GetRegistryLoaded

SpecLoad == InitLoad /\ [][NextLoad]_vars

\* ---- eval_rules_dynamic(data), RuleEvaluator.evaluate_all(data), build_risks
\* The registry of a well-formed default document is loaded.
Init ==
    /\ default_source \in Sources
    /\ ~RuleRegistry(default_source).raised
    /\ registry_instance = [none |-> FALSE, path |-> "None",
                            rules |-> RuleRegistry(default_source).rules]
    /\ constructed = [path |-> "None", raised |-> FALSE, key |-> "",
                      rules |-> RuleRegistry(default_source).rules]
    /\ load_status = "ok"
    /\ instance_before = NoRegistry
    /\ loads = 1
    /\ evaluator = NoEvaluator
    /\ calls = 0
    /\ NoCall
    /\ NoRiskCall
    /\ NoSide

\* No evaluate_all call is running and the run before is complete.
Idle == pc = "idle" \/ (pc = "returned" /\ risks.done)

\* RuleEvaluator.__init__
RuleEvaluator(registry) ==
    [exists |-> TRUE, registry |-> registry.rules,
     evaluation_stats |-> [total_rules |-> 0, rules_triggered |-> 0, rules_failed |-> 0]]

\* registry = get_rule_registry(); evaluator = RuleEvaluator(registry)
NewEvaluator ==
    /\ Idle
    /\ ~registry_instance.none
    /\ evaluator # RuleEvaluator(registry_instance)
    /\ evaluator' = RuleEvaluator(registry_instance)
    /\ UNCHANGED <<default_source, calls>>
    /\ UNCHANGED registry_vars
    /\ UNCHANGED call_vars
    /\ UNCHANGED risk_vars
    /\ UNCHANGED side_vars

\* A variant of the start of evaluate_all that keeps the triggered ids of the
\* call before (the set held by the evaluator instead of the call).
EvaluateAllStartKeepingIds ==
    /\ Idle
    /\ evaluator.exists
    /\ calls < MaxCalls
    /\ \E d \in Inputs : data' = d
    /\ rules' = get_enabled_rules(evaluator.registry)
    /\ evaluator' = [evaluator EXCEPT !.evaluation_stats.total_rules = Len(rules')]
    /\ triggers' = <<>>
    /\ trace' = <<>>
    /\ idx' = 1
    /\ pc' = "loop"
    /\ calls' = calls + 1
    /\ prev_run' = IF pc = "returned"
                   THEN [valid |-> TRUE, registry |-> evaluator.registry, data |-> data,
                         result |-> result, risks |-> risks]
                   ELSE prev_run
    /\ risks' = NoRisks
    /\ UNCHANGED <<default_source, result, triggered_ids>>
    /\ UNCHANGED registry_vars
    /\ UNCHANGED risk_vars
    /\ UNCHANGED side_vars

\* evaluate_all up to its loop: the enabled rules, total_rules, the empty
\* locals.
EvaluateAllStart ==
    /\ Idle
    /\ evaluator.exists
    /\ calls < MaxCalls
    /\ \E d \in Inputs : data' = d
    /\ rules' = get_enabled_rules(evaluator.registry)
    /\ evaluator' = [evaluator EXCEPT !.evaluation_stats.total_rules = Len(rules')]
    /\ triggers' = <<>>
    /\ triggered_ids' = {}
    /\ trace' = <<>>
    /\ idx' = 1
    /\ pc' = "loop"
    /\ calls' = calls + 1
    /\ prev_run' = IF pc = "returned"
                   THEN [valid |-> TRUE, registry |-> evaluator.registry, data |-> data,
                         result |-> result, risks |-> risks]
                   ELSE prev_run
    /\ risks' = NoRisks
    /\ UNCHANGED <<default_source, result>>
    /\ UNCHANGED registry_vars
    /\ UNCHANGED risk_vars
    /\ UNCHANGED side_vars

\* A variant of the except clause that appends the outcome of a rule that
\* did not trigger, without severity and without the error.
ErrorTriggerUnmarked(rule_id, err) == NotTriggered(rule_id)

\* The RuleTrigger the except clause of evaluate_all appends.
ErrorTrigger(rule_id, err) ==
    RuleTrigger(rule_id, FALSE, Str("low"), Int2V(1), [error |-> Str(err)],
                Reason(<<Text("Rule evaluation failed: "), Text(err)>>), <<>>)

\* A variant of the duplicate test that never finds a duplicate.
NeverDuplicate(trigger, ids) == FALSE

\* `trigger.triggered and trigger.rule_id in triggered_ids`
IsDuplicate(trigger, ids) == trigger.triggered /\ trigger.rule_id \in ids

\* One iteration: _evaluate_rule raised.
EvaluateRuleFailed ==
    /\ pc = "loop"
    /\ idx <= Len(rules)
    /\ \E r \in {evaluate_rule(rules[idx], data)} :
          /\ r.raised
          /\ triggers' = Append(triggers, ErrorTrigger(rules[idx].id, r.err))
    /\ evaluator' = [evaluator EXCEPT !.evaluation_stats.rules_failed = @ + 1]
    /\ trace' = Append(trace, "failed")
    /\ idx' = idx + 1
    /\ UNCHANGED <<default_source, calls, pc, data, rules, triggered_ids, result, risks, prev_run>>
    /\ UNCHANGED registry_vars
    /\ UNCHANGED risk_vars
    /\ UNCHANGED side_vars

\* A variant of the skipped iteration that stays at the rule (it evaluates the
\* rule again instead of going on to the next one).
EvaluateRuleDuplicateAgain ==
    /\ pc = "loop"
    /\ idx <= Len(rules)
    /\ \E r \in {evaluate_rule(rules[idx], data)} :
          /\ ~r.raised
          /\ IsDuplicate(r.trigger, triggered_ids)
    /\ UNCHANGED vars

\* One iteration: a triggered outcome for an id that has triggered already.
EvaluateRuleDuplicate ==
    /\ pc = "loop"
    /\ idx <= Len(rules)
    /\ \E r \in {evaluate_rule(rules[idx], data)} :
          /\ ~r.raised
          /\ IsDuplicate(r.trigger, triggered_ids)
    /\ trace' = Append(trace, "skipped")
    /\ idx' = idx + 1
    /\ UNCHANGED <<default_source, evaluator, calls, pc, data, rules, triggers, triggered_ids,
                   result, risks, prev_run>>
    /\ UNCHANGED registry_vars
    /\ UNCHANGED risk_vars
    /\ UNCHANGED side_vars

\* One iteration: the outcome is appended.
EvaluateRuleAppended ==
    /\ pc = "loop"
    /\ idx <= Len(rules)
    /\ \E r \in {evaluate_rule(rules[idx], data)} :
          /\ ~r.raised
          /\ ~IsDuplicate(r.trigger, triggered_ids)
          /\ triggers' = Append(triggers, r.trigger)
          /\ triggered_ids' = IF r.trigger.triggered
                              THEN triggered_ids \cup {r.trigger.rule_id} ELSE triggered_ids
          /\ evaluator' = IF r.trigger.triggered
                          THEN [evaluator EXCEPT !.evaluation_stats.rules_triggered = @ + 1]
                          ELSE evaluator
    /\ trace' = Append(trace, "appended")
    /\ idx' = idx + 1
    /\ UNCHANGED <<default_source, calls, pc, data, rules, result, risks, prev_run>>
    /\ UNCHANGED registry_vars
    /\ UNCHANGED risk_vars
    /\ UNCHANGED side_vars

\* After the loop: return triggers.
EvaluateAllReturn ==
    /\ pc = "loop"
    /\ idx > Len(rules)
    /\ result' = triggers
    /\ pc' = "returned"
    /\ UNCHANGED <<default_source, evaluator, calls, data, rules, idx, triggers, triggered_ids,
                   trace, risks, prev_run>>
    /\ UNCHANGED registry_vars
    /\ UNCHANGED risk_vars
    /\ UNCHANGED side_vars

\* build_risks(data, rules) on the returned list, as evaluate_payload does.
BuildRisks ==
    /\ pc = "returned"
    /\ ~risks.done
    /\ \E b \in {build_risks(result)} :
          risks' = [done |-> TRUE, raised |-> b.raised, items |-> b.items]
    /\ UNCHANGED <<default_source, evaluator, calls, pc, data, rules, idx, triggers,
                   triggered_ids, trace, result, prev_run>>
    /\ UNCHANGED registry_vars
    /\ UNCHANGED risk_vars
    /\ UNCHANGED side_vars

Next ==
    \/ NewEvaluator
    \/ EvaluateAllStart
    \/ EvaluateRuleFailed
    \/ EvaluateRuleDuplicate
    \/ EvaluateRuleAppended
    \/ EvaluateAllReturn
    \/ BuildRisks

Spec == Init /\ [][Next]_vars

\* One step of a running evaluate_all call: the thread that runs the call
\* goes on to its next statement.
EvaluateAllStep ==
    \/ EvaluateRuleFailed
    \/ EvaluateRuleDuplicate
    \/ EvaluateRuleAppended
    \/ EvaluateAllReturn

\* The catalogs of the rules whose conditions are comparisons, existence
\* tests and nested logical conditions.
LiveSources ==
    SeqsUpTo({DuplicateRule, BrokenRule, UndefinedFieldRule, UnmappedRule, CriticalRule,
              DisabledRule}, MaxRules)

InitLive == Init /\ default_source \in LiveSources

\* evaluate_all on these catalogs, with a call that, once started, keeps
\* running.
SpecLive == InitLive /\ [][Next]_vars /\ WF_vars(EvaluateAllStep)

\* ---- build_risks(data, rules) on any list of RuleTrigger
InitRisk ==
    /\ default_source = <<>>
    /\ registry_instance = NoRegistry
    /\ constructed = NotConstructed
    /\ load_status = "none"
    /\ instance_before = NoRegistry
    /\ loads = 0
    /\ evaluator = NoEvaluator
    /\ calls = 0
    /\ NoCall
    /\ risk_rules \in RuleLists
    /\ risk_result = NoRisks
    /\ NoSide

BuildRisksOfList ==
    /\ ~risk_result.done
    /\ \E b \in {build_risks(risk_rules)} :
          risk_result' = [done |-> TRUE, raised |-> b.raised, items |-> b.items]
    /\ UNCHANGED <<default_source, risk_rules>>
    /\ UNCHANGED registry_vars
    /\ UNCHANGED evaluator_vars
    /\ UNCHANGED call_vars
    /\ UNCHANGED side_vars

NextRisk == BuildRisksOfList

SpecRisk == InitRisk /\ [][NextRisk]_vars

\* ---- _evaluate_condition(condition, context) on logical_and trees
\* A regex_match without threshold.
RegexExtract(field, pattern, extract) ==
    Condition("regex_match", {"type", "field", "pattern", "extract"}, NoExpr, "",
              NoExpr, <<>>, field, pattern, extract, NoThreshold)

DriftField == Expr(<<"insights", ".", "category_drift">>)

\* The children of the logical_and conditions: comparisons that hold on
\* some inputs, pattern matches that extract (one whose threshold fails
\* after the extraction, two that extract the same name), a comparison that
\* raises, and nested conditions.
Children ==
    {Comparison(Expr(<<"current_month_expense">>), ">", Expr(<<"current_month_income">>)),
     Comparison(Expr(<<"undefined_field">>), ">", Lit(Int2V(0))),
     RegexMatch(DriftField, PatDrift, <<"category", "delta_pct">>, Threshold("delta_pct", ">=", Int2V(100))),
     RegexExtract(DriftField, PatDrift, <<"category", "delta_pct">>),
     RegexExtract(DriftField, PatWord, <<"delta_pct">>),
     BrokenComparison(Expr(<<"current_month_expense">>), Lit(Int2V(0))),
     And(<<RegexExtract(DriftField, PatWord, <<"word">>), FieldExists(Expr(<<"persona">>))>>),
     Or(<<IsNull(Expr(<<"persona">>)), RegexExtract(DriftField, PatDrift, <<"category">>)>>)}

AndTrees == {And(children) : children \in SeqsUpTo(Children, MaxChildren)}

InitCond ==
    /\ default_source = <<>>
    /\ registry_instance = NoRegistry
    /\ constructed = NotConstructed
    /\ load_status = "none"
    /\ instance_before = NoRegistry
    /\ loads = 0
    /\ evaluator = NoEvaluator
    /\ calls = 0
    /\ NoCall
    /\ NoRiskCall
    /\ NoThreads
    /\ NoAdvice
    /\ fn = "_evaluate_condition"
    /\ args \in [condition : AndTrees, data : Inputs]
    /\ ret = NoReturn

EvaluateCondition ==
    /\ fn = "_evaluate_condition"
    /\ ~ret.done
    /\ \E r \in {evaluate_condition(args.condition, build_context(args.data))} :
          ret' = [done |-> TRUE, raised |-> r.raised, triggered |-> r.triggered,
                  extracted |-> r.extracted]
    /\ UNCHANGED <<fn, args>>
    /\ UNCHANGED core_vars

NextCond == EvaluateCondition

SpecCond == InitCond /\ [][NextCond]_vars

\* ---- _evaluate_condition on comparison (specification SpecCompare)
\* Sides that resolve to numbers, to strings, to a bool and to None.
Operands ==
    {Expr(<<"current_month_expense">>), Expr(<<"current_month_income">>),
     Expr(<<"undefined_field">>), Expr(<<"persona">>),
     Expr(<<"insights", ".", "top_spend_category">>),
     Lit(Int2V(4000)), Lit(Bool(TRUE)),
     Expr(<<"current_month_income", "/", "savings_rate">>)}

\* The six operators of _compare and one it does not know.
Operators == {">", ">=", "<", "<=", "==", "!=", "=>"}

Comparisons == {Comparison(l, op, r) : l \in Operands, op \in Operators, r \in Operands}

InitCompare ==
    /\ default_source = <<>>
    /\ registry_instance = NoRegistry
    /\ constructed = NotConstructed
    /\ load_status = "none"
    /\ instance_before = NoRegistry
    /\ loads = 0
    /\ evaluator = NoEvaluator
    /\ calls = 0
    /\ NoCall
    /\ NoRiskCall
    /\ NoThreads
    /\ NoAdvice
    /\ fn = "_evaluate_condition"
    /\ args \in [condition : Comparisons, data : Inputs]
    /\ ret = NoReturn

SpecCompare == InitCompare /\ [][NextCond]_vars

\* The values a condition extracted before the call.
ExtractedMaps ==
    {EmptyMap, [delta_pct |-> "45", category |-> "Entertainment"],
     [current_month_income |-> "45", persona |-> "Entertainment"]}

\* ---- _calculate_severity (specification SpecSeverity)
\* Metrics that resolve to numbers, to None, to a string and to the number
\* of an extracted value.
Metrics ==
    {Expr(<<"savings_rate">>), GapExpr, Expr(<<"undefined_field">>), Expr(<<"persona">>),
     Expr(<<"delta_pct">>)}

\* The bands of Example 2 of the specification, a band whose threshold is a
\* string, and bands that lack a key.
BandPool ==
    {Band(Num(1, 2), "high"), Band(Num(3, 10), "medium"), Band(NoneV, "low"),
     Band(Str("high"), "medium"),
     [has |-> {"threshold"}, threshold |-> Int2V(0), severity |-> NoneV],
     [has |-> {"severity"}, threshold |-> NoneV, severity |-> Str("high")]}

ThresholdRulePool ==
    {ThresholdRule(<<">=", "100">>, "high"), ThresholdRule(<<">", "0">>, "medium"),
     [has |-> {"condition"}, condition |-> <<">=", "0">>, severity |-> NoneV],
     [has |-> {"severity"}, condition |-> <<>>, severity |-> Str("high")]}

SeverityDefs ==
    {Banded(metric, bands) : metric \in Metrics, bands \in SeqsUpTo(BandPool, MaxBands)}
    \cup {ThresholdSeverity(metric, listed) :
              metric \in Metrics, listed \in SeqsUpTo(ThresholdRulePool, MaxBands)}
    \cup {Fixed("high"), Fixed("critical"), Fixed(""), UnknownSeverity,
          SeveritySpec("fixed", {"type"}, NoneV, NoExpr, <<>>, <<>>),
          SeveritySpec("", {}, NoneV, NoExpr, <<>>, <<>>),
          SeveritySpec("banded", {"type", "bands"}, NoneV, NoExpr, <<Band(NoneV, "high")>>, <<>>),
          SeveritySpec("banded", {"type", "metric"}, NoneV, GapExpr, <<>>, <<>>),
          SeveritySpec("threshold", {"type", "rules"}, NoneV, NoExpr, <<>>,
                       <<ThresholdRule(<<">=", "0">>, "high")>>),
          SeveritySpec("threshold", {"type", "metric"}, NoneV, GapExpr, <<>>, <<>>),
          [Fixed("high") EXCEPT !.obj = FALSE]}

InitSeverity ==
    /\ default_source = <<>>
    /\ registry_instance = NoRegistry
    /\ constructed = NotConstructed
    /\ load_status = "none"
    /\ instance_before = NoRegistry
    /\ loads = 0
    /\ evaluator = NoEvaluator
    /\ calls = 0
    /\ NoCall
    /\ NoRiskCall
    /\ NoThreads
    /\ NoAdvice
    /\ fn = "_calculate_severity"
    /\ args \in [severity_def : SeverityDefs, data : Inputs, extracted : ExtractedMaps]
    /\ ret = NoReturn

CalculateSeverity ==
    /\ fn = "_calculate_severity"
    /\ ~ret.done
    /\ \E r \in {calculate_severity(args.severity_def, build_context(args.data), args.extracted)} :
          ret' = [done |-> TRUE, raised |-> r.raised, severity |-> r.sev]
    /\ UNCHANGED <<fn, args>>
    /\ UNCHANGED core_vars

NextSeverity == CalculateSeverity

SpecSeverity == InitSeverity /\ [][NextSeverity]_vars

\* ---- _evaluate_condition on regex_match (specification SpecRegex)
\* Fields that resolve to a text, to the empty text and to None.
RegexFields ==
    {DriftField, Expr(<<"insights", ".", "top_spend_category">>), Expr(<<"undefined_field">>)}

RegexThresholds ==
    {Threshold("delta_pct", ">=", Int2V(45)), Threshold("delta_pct", ">", Int2V(100)),
     Threshold("delta_pct", "=>", Int2V(0)), Threshold("category", ">=", Int2V(0)),
     Threshold("missing", ">=", Int2V(0))}

ExtractNames ==
    {<<>>, <<"delta_pct">>, <<"category", "delta_pct">>, <<"category", "delta_pct", "extra">>}

RegexConditions ==
    {RegexMatch(field, pattern, extract, threshold) :
        field \in RegexFields, pattern \in {PatDrift, PatWord, PatLoose, PatBad},
        extract \in ExtractNames, threshold \in RegexThresholds}
    \cup {RegexExtract(field, pattern, extract) :
             field \in RegexFields, pattern \in {PatDrift, PatWord, PatLoose, PatBad},
             extract \in ExtractNames}

\* The inputs, and the drift input with a drift text in other letter case.
RegexInputs ==
    Inputs \cup {[DriftInput EXCEPT !.insights = Insights(NoneV, Str("food UP BY 1%"))]}

InitRegex ==
    /\ default_source = <<>>
    /\ registry_instance = NoRegistry
    /\ constructed = NotConstructed
    /\ load_status = "none"
    /\ instance_before = NoRegistry
    /\ loads = 0
    /\ evaluator = NoEvaluator
    /\ calls = 0
    /\ NoCall
    /\ NoRiskCall
    /\ NoThreads
    /\ NoAdvice
    /\ fn = "_evaluate_condition"
    /\ args \in [condition : RegexConditions, data : RegexInputs]
    /\ ret = NoReturn

SpecRegex == InitRegex /\ [][NextCond]_vars

\* ---- _evaluate_rule on rules with parameters (specification SpecParams)
\* Parameters that resolve (a config lookup, the gap, an extracted value)
\* and parameters that do not (an unknown name, a division by zero).
ParamPool ==
    {[name |-> "min", expr |-> Expr(<<"persona_min_savings", "[", "persona", "]">>)],
     [name |-> "gap_amt", expr |-> Expr(<<"current_month_expense", "-", "current_month_income">>)],
     [name |-> "delta_pct", expr |-> Expr(<<"delta_pct">>)],
     [name |-> "gone", expr |-> Expr(<<"undefined_field">>)],
     [name |-> "ratio", expr |-> Expr(<<"current_month_income", "/", "savings_rate">>)]}

\* The parameter lists of a JSON object: no name twice.
ParamLists ==
    {ps \in SeqsUpTo(ParamPool, MaxParams) :
        \A i, j \in 1..Len(ps) : ps[i].name = ps[j].name => i = j}

ParamConditions ==
    {Comparison(Expr(<<"current_month_income">>), ">", Lit(Int2V(0))),
     Comparison(Expr(<<"current_month_expense">>), ">", Expr(<<"current_month_income">>)),
     RegexExtract(DriftField, PatDrift, <<"category", "delta_pct">>)}

ParamRules ==
    {RuleDict(AllKeys, "R-SAVE-LOW-01", TRUE, 1, Int2V(1), condition, Fixed("medium"), ps,
              <<Text("Savings below "), Placeholder("min"), Placeholder("gone")>>) :
        condition \in ParamConditions, ps \in ParamLists}

InitParams ==
    /\ default_source = <<>>
    /\ registry_instance = NoRegistry
    /\ constructed = NotConstructed
    /\ load_status = "none"
    /\ instance_before = NoRegistry
    /\ loads = 0
    /\ evaluator = NoEvaluator
    /\ calls = 0
    /\ NoCall
    /\ NoRiskCall
    /\ NoThreads
    /\ NoAdvice
    /\ fn = "_evaluate_rule"
    /\ args \in [rule : ParamRules, data : Inputs]
    /\ ret = NoReturn

EvaluateRule ==
    /\ fn = "_evaluate_rule"
    /\ ~ret.done
    /\ \E r \in {evaluate_rule(RuleDefinition(args.rule), args.data)} :
          ret' = [done |-> TRUE, raised |-> r.raised, trigger |-> r.trigger]
    /\ UNCHANGED <<fn, args>>
    /\ UNCHANGED core_vars

NextParams == EvaluateRule

SpecParams == InitParams /\ [][NextParams]_vars

\* ---- build_recommendations, ids and linked risks (specification SpecLinks)
InitLinks ==
    /\ default_source = <<>>
    /\ registry_instance = NoRegistry
    /\ constructed = NotConstructed
    /\ load_status = "none"
    /\ instance_before = NoRegistry
    /\ loads = 0
    /\ evaluator = NoEvaluator
    /\ calls = 0
    /\ NoCall
    /\ NoRiskCall
    /\ NoThreads
    /\ NoAdvice
    /\ fn = "recommendation_links"
    /\ args \in [risks : SeqsUpTo(LinkRisks, MaxRisks), outcomes : SeqsUpTo(LinkOutcomes, MaxOutcomes)]
    /\ ret = NoReturn

RecommendationLinks ==
    /\ fn = "recommendation_links"
    /\ ~ret.done
    /\ ret' = [done |-> TRUE, recs |-> recommendation_links(args.risks, args.outcomes)]
    /\ UNCHANGED <<fn, args>>
    /\ UNCHANGED core_vars

NextLinks == RecommendationLinks

SpecLinks == InitLinks /\ [][NextLinks]_vars

\* ---- _evaluate_condition on logical_or (specification SpecOr)
OrTrees == {Or(children) : children \in SeqsUpTo(Children, MaxChildren)}

InitOr ==
    /\ default_source = <<>>
    /\ registry_instance = NoRegistry
    /\ constructed = NotConstructed
    /\ load_status = "none"
    /\ instance_before = NoRegistry
    /\ loads = 0
    /\ evaluator = NoEvaluator
    /\ calls = 0
    /\ NoCall
    /\ NoRiskCall
    /\ NoThreads
    /\ NoAdvice
    /\ fn = "_evaluate_condition"
    /\ args \in [condition : OrTrees, data : Inputs]
    /\ ret = NoReturn

SpecOr == InitOr /\ [][NextCond]_vars

\* ---- _build_context(data) and the rules evaluated on it
\* A value or its absence.
Optional(v) == {NoneV, v}

\* Inputs with every subset of the optional fields absent: the flat fields,
\* the nested objects, and the members of a nested object that is present.
OptionalInputs ==
    {[NormalizedInput(Int2V(4000), Int2V(5000), savings_rate, NoneV, Dict(<<>>), emergency, metrics, insights)
        EXCEPT !.income_volatility = volatility, !.forecast = forecast] :
       savings_rate \in Optional(Num(1, 10)),
       volatility \in Optional(Num(1, 2)),
       emergency \in Optional(Int2V(1000)),
       metrics \in {NoneV} \cup {BehaviorMetrics(stability, Num(1, 4), days) :
                                   stability \in Optional(Num(1, 2)), days \in Optional(Int2V(1))},
       forecast \in {NoneV} \cup {Forecast(Int2V(5000), savings, confidence) :
                                    savings \in Optional(Int2V(-100)), confidence \in Optional(Num(9, 10))},
       insights \in {NoneV} \cup {Insights(top, drift) :
                                    top \in Optional(Str("Food")),
                                    drift \in Optional(Str("Entertainment up by 45%"))}}

\* A rule on the members of the forecast: a predicted shortfall the forecast
\* is confident of.
ForecastRule ==
    RuleDict(AllKeys, "R-FORECAST-01", TRUE, 1, Int2V(1),
             And(<<Comparison(Expr(<<"forecast", ".", "savings">>), "<=", Lit(Int2V(0))),
                   Comparison(Expr(<<"forecast", ".", "confidence">>), ">=", Lit(Num(7, 10)))>>),
             Fixed("medium"), <<>>, <<Text("Forecast shortfall")>>)

\* The catalog evaluated on the context: rules reading the optional fields.
OptionalCatalog ==
    <<DeficitRule, SavingsRule, DriftRule, UnmappedRule, ForecastRule>>

InitContext ==
    /\ default_source = <<>>
    /\ registry_instance = NoRegistry
    /\ constructed = NotConstructed
    /\ load_status = "none"
    /\ instance_before = NoRegistry
    /\ loads = 0
    /\ evaluator = NoEvaluator
    /\ calls = 0
    /\ NoCall
    /\ NoRiskCall
    /\ NoThreads
    /\ NoAdvice
    /\ fn = "_build_context"
    /\ args \in [data : OptionalInputs]
    /\ ret = NoReturn

\* context = self._build_context(data)
BuildContext ==
    /\ fn = "_build_context"
    /\ ~ret.done
    /\ ret' = [done |-> TRUE, context |-> build_context(args.data), evaluated |-> FALSE, trace |-> <<>>]
    /\ UNCHANGED <<fn, args>>
    /\ UNCHANGED core_vars

\* The iterations of evaluate_all on the input: _evaluate_rule of each rule.
EvaluateOnContext ==
    /\ fn = "_build_context"
    /\ ret.done
    /\ ~ret.evaluated
    /\ \E tr \in {[i \in 1..Len(OptionalCatalog) |->
                        evaluate_rule(RuleDefinition(OptionalCatalog[i]), args.data)]} :
          ret' = [ret EXCEPT !.evaluated = TRUE, !.trace = tr]
    /\ UNCHANGED <<fn, args>>
    /\ UNCHANGED core_vars

NextContext == BuildContext \/ EvaluateOnContext

SpecContext == InitContext /\ [][NextContext]_vars

\* ---- build_recommendations(data, risks, rules)
InitRecommend ==
    /\ default_source = <<>>
    /\ registry_instance = NoRegistry
    /\ constructed = NotConstructed
    /\ load_status = "none"
    /\ instance_before = NoRegistry
    /\ loads = 0
    /\ evaluator = NoEvaluator
    /\ calls = 0
    /\ NoCall
    /\ NoRiskCall
    /\ NoThreads
    /\ NoAdvice
    /\ fn = "build_recommendations"
    /\ args \in [data : ReductionInputs, rules : SeqsUpTo(ReductionOutcomes, 1)]
    /\ ret = NoReturn

BuildRecommendations ==
    /\ fn = "build_recommendations"
    /\ ~ret.done
    /\ ret' = [done |-> TRUE, recs |-> build_recommendations(args.data, args.rules)]
    /\ UNCHANGED <<fn, args>>
    /\ UNCHANGED core_vars

NextRecommend == BuildRecommendations

SpecRecommend == InitRecommend /\ [][NextRecommend]_vars

\* ---- concurrent calls: eval_rules_dynamic in two threads, and a
\* get_rule_registry(path) that replaces the catalog meanwhile
Threads == {1, 2}

\* A variant of `evaluator = RuleEvaluator(registry)` with one evaluator for
\* all calls.
EvaluatorShared(t) == 1

\* evaluator = RuleEvaluator(registry) in eval_rules_dynamic: each call makes
\* its own.
EvaluatorOf(t) == t

\* A variant of the assignment to the global that comes before the
\* constructor has loaded the file (the global refers to the object under
\* construction).
PublishedEarly(before, object, complete) == object

\* _registry_instance = RuleRegistry(registry_path): the global is bound when
\* the constructor has returned.
Published(before, object, complete) == IF complete THEN object ELSE before

NoOutcomes == [triggers |-> <<>>, triggered_ids |-> {}, rules_triggered |-> 0, rules_failed |-> 0]

\* One iteration of the loop of evaluate_all on its locals and counts, given
\* what _evaluate_rule made of the rule.
Iterated(acc, rule_def, r) ==
    IF r.raised
    THEN [acc EXCEPT !.triggers = Append(@, ErrorTrigger(rule_def.id, r.err)),
                     !.rules_failed = @ + 1]
    ELSE IF IsDuplicate(r.trigger, acc.triggered_ids) THEN acc
    ELSE IF r.trigger.triggered
         THEN [acc EXCEPT !.triggers = Append(@, r.trigger),
                          !.triggered_ids = @ \cup {r.trigger.rule_id},
                          !.rules_triggered = @ + 1]
         ELSE [acc EXCEPT !.triggers = Append(@, r.trigger)]

RECURSIVE AloneLoop(_, _, _, _)
AloneLoop(enabled, i, input, acc) ==
    IF i > Len(enabled) THEN acc
    ELSE AloneLoop(enabled, i + 1, input, Iterated(acc, enabled[i], evaluate_rule(enabled[i], input)))

\* evaluate_all of a fresh evaluator with no other call running: the list
\* it returns and the counts of its statistics.
evaluate_alone(enabled, input) == AloneLoop(enabled, 1, input, NoOutcomes)

\* The documents at the default path: a duplicate id, a failing rule, a
\* disabled rule.
ThreadSources ==
    {<<DeficitRule, DuplicateRule>>, <<BrokenRule, SavingsRule>>, <<DriftRule, DisabledRule>>}

NoThread ==
    [pc |-> "start", data |-> DeficitInput, registry |-> NoRegistry, rules |-> <<>>, idx |-> 0,
     outcomes |-> NoOutcomes, evaluated |-> <<>>, result |-> <<>>]

InitThreads ==
    /\ default_source \in ThreadSources
    /\ registry_instance = [none |-> FALSE, path |-> "None",
                            rules |-> RuleRegistry(default_source).rules]
    /\ constructed = NotConstructed
    /\ load_status = "ok"
    /\ instance_before = NoRegistry
    /\ loads = 1
    /\ evaluator = NoEvaluator
    /\ calls = 0
    /\ NoCall
    /\ NoRiskCall
    /\ NoUnitCall
    /\ NoAdvice
    /\ \E d \in [Threads -> Inputs] : threads = [t \in Threads |-> [NoThread EXCEPT !.data = d[t]]]
    /\ evaluators = [e \in Threads |-> NoEvaluator.evaluation_stats]
    /\ loader = [pc |-> "idle", path |-> "", next |-> 0, object |-> <<>>]

ThreadRest == <<default_source, constructed, load_status, instance_before, evaluator_vars,
                call_vars, risk_vars, unit_vars, advice>>

\* registry = get_rule_registry(): the global is set, it is returned.
ThreadGetRegistry(t) ==
    /\ threads[t].pc = "start"
    /\ ~registry_instance.none
    /\ threads' = [threads EXCEPT ![t].pc = "got", ![t].registry = registry_instance]
    /\ UNCHANGED <<registry_instance, loads, evaluators, loader>>
    /\ UNCHANGED ThreadRest

\* evaluator = RuleEvaluator(registry)
ThreadNewEvaluator(t) ==
    /\ threads[t].pc = "got"
    /\ threads' = [threads EXCEPT ![t].pc = "made"]
    /\ evaluators' = [evaluators EXCEPT ![EvaluatorOf(t)] = RuleEvaluator(threads[t].registry).evaluation_stats]
    /\ UNCHANGED <<registry_instance, loads, loader>>
    /\ UNCHANGED ThreadRest

\* evaluate_all up to its loop: the list of the enabled rules, total_rules.
ThreadStart(t) ==
    /\ threads[t].pc = "made"
    /\ \E enabled \in {get_enabled_rules(threads[t].registry.rules)} :
          /\ threads' = [threads EXCEPT ![t].pc = "loop", ![t].rules = enabled, ![t].idx = 1]
          /\ evaluators' = [evaluators EXCEPT ![EvaluatorOf(t)].total_rules = Len(enabled)]
    /\ UNCHANGED <<registry_instance, loads, loader>>
    /\ UNCHANGED ThreadRest

\* One iteration of the loop of evaluate_all in thread t.
ThreadIterate(t) ==
    /\ threads[t].pc = "loop"
    /\ threads[t].idx <= Len(threads[t].rules)
    /\ \E acc \in {Iterated(threads[t].outcomes, threads[t].rules[threads[t].idx],
                              evaluate_rule(threads[t].rules[threads[t].idx], threads[t].data))} :
          /\ threads' = [threads EXCEPT
                            ![t].outcomes = acc,
                            ![t].evaluated = Append(@, threads[t].rules[threads[t].idx]),
                            ![t].idx = @ + 1]
          /\ evaluators' = [evaluators EXCEPT
                               ![EvaluatorOf(t)].rules_triggered =
                                   @ + (acc.rules_triggered - threads[t].outcomes.rules_triggered),
                               ![EvaluatorOf(t)].rules_failed =
                                   @ + (acc.rules_failed - threads[t].outcomes.rules_failed)]
    /\ UNCHANGED <<registry_instance, loads, loader>>
    /\ UNCHANGED ThreadRest

\* return triggers
ThreadReturn(t) ==
    /\ threads[t].pc = "loop"
    /\ threads[t].idx > Len(threads[t].rules)
    /\ threads' = [threads EXCEPT ![t].pc = "returned", ![t].result = threads[t].outcomes.triggers]
    /\ UNCHANGED <<registry_instance, loads, evaluators, loader>>
    /\ UNCHANGED ThreadRest

InstanceOf(path, loaded) == [none |-> FALSE, path |-> path, rules |-> loaded]

\* get_rule_registry(path) with a path: RuleRegistry.__init__ sets
\* self.rules = [].
LoaderConstruct ==
    /\ loader.pc = "idle"
    /\ loads < MaxLoads
    /\ \E path \in Paths \ {"None"} :
          /\ loader' = [pc |-> "loading", path |-> path, next |-> 1, object |-> <<>>]
          /\ registry_instance' = Published(registry_instance, InstanceOf(path, <<>>), FALSE)
    /\ loads' = loads + 1
    /\ UNCHANGED <<threads, evaluators>>
    /\ UNCHANGED ThreadRest

\* One record of the file: self.rules.append(rule)
LoaderAppend ==
    /\ loader.pc = "loading"
    /\ loader.next <= Len(FileAt(loader.path))
    /\ MissingKey(FileAt(loader.path)[loader.next]) = ""
    /\ \E loaded \in {Append(loader.object, RuleDefinition(FileAt(loader.path)[loader.next]))} :
          /\ loader' = [loader EXCEPT !.next = @ + 1, !.object = loaded]
          /\ registry_instance' = Published(registry_instance, InstanceOf(loader.path, loaded), FALSE)
    /\ UNCHANGED <<threads, evaluators, loads>>
    /\ UNCHANGED ThreadRest

\* A record without a required key: the KeyError ends the call before the
\* assignment.
LoaderRaise ==
    /\ loader.pc = "loading"
    /\ loader.next <= Len(FileAt(loader.path))
    /\ MissingKey(FileAt(loader.path)[loader.next]) # ""
    /\ loader' = [loader EXCEPT !.pc = "idle"]
    /\ UNCHANGED <<registry_instance, threads, evaluators, loads>>
    /\ UNCHANGED ThreadRest

\* The constructor returned: _registry_instance = RuleRegistry(registry_path)
LoaderPublish ==
    /\ loader.pc = "loading"
    /\ loader.next > Len(FileAt(loader.path))
    /\ registry_instance' = Published(registry_instance, InstanceOf(loader.path, loader.object), TRUE)
    /\ loader' = [loader EXCEPT !.pc = "idle"]
    /\ UNCHANGED <<threads, evaluators, loads>>
    /\ UNCHANGED ThreadRest

NextThreads ==
    \/ \E t \in Threads : ThreadGetRegistry(t)
    \/ \E t \in Threads : ThreadNewEvaluator(t)
    \/ \E t \in Threads : ThreadStart(t)
    \/ \E t \in Threads : ThreadIterate(t)
    \/ \E t \in Threads : ThreadReturn(t)
    \/ LoaderConstruct
    \/ LoaderAppend
    \/ LoaderRaise
    \/ LoaderPublish

SpecThreads == InitThreads /\ [][NextThreads]_vars

\* ---- services.llm.generate_advice_with_llm
KnownProviders == {"openai", "azure", "groq", "gemini", "ollama"}
Providers == KnownProviders \cup {"other"}

\* What a provider call gives: the text of an advice object, other valid JSON
\* (null, a list, an object of another shape), text that is not JSON, no
\* content (None), or an exception (HTTP status, timeout, response shape).
Responses == {"advice", "json", "invalid", "none", "error"}

\* The request: rules_output and behavior_output are Dict[str, Any]; on some
\* the prompt builder raises (a metric that is None), on some the template
\* of the fallback raises as well (a risk that is a string).
Requests == {"ok", "prompt_raises", "both_raise"}
PromptRaises(request) == request \in {"prompt_raises", "both_raise"}
FallbackRaises(request) == request = "both_raise"

InitAdvice ==
    /\ default_source = <<>>
    /\ registry_instance = NoRegistry
    /\ constructed = NotConstructed
    /\ load_status = "none"
    /\ instance_before = NoRegistry
    /\ loads = 0
    /\ evaluator = NoEvaluator
    /\ calls = 0
    /\ NoCall
    /\ NoRiskCall
    /\ NoUnitCall
    /\ NoThreads
    /\ \E key \in BOOLEAN, provider \in Providers, request \in Requests :
          advice = [pc |-> "start", api_key |-> key, provider |-> provider, request |-> request,
                    provider_calls |-> 0, first |-> "", second |-> "", outcome |-> ""]

AdviceRest == <<default_source, registry_vars, evaluator_vars, call_vars, risk_vars, unit_vars, thread_vars>>

\* user_prompt = _build_user_prompt(...)
BuildUserPrompt ==
    /\ advice.pc = "start"
    /\ advice' = [advice EXCEPT !.pc = IF PromptRaises(advice.request) THEN "except" ELSE "check_key"]
    /\ UNCHANGED AdviceRest

\* `if not LLM_API_KEY: return _get_fallback_advice(...)`
CheckApiKey ==
    /\ advice.pc = "check_key"
    /\ advice' = [advice EXCEPT !.pc = IF advice.api_key THEN "dispatch" ELSE "fallback"]
    /\ UNCHANGED AdviceRest

\* The provider chain: one call of the configured provider, or the fallback
\* for a provider it does not know.
CallProvider ==
    /\ advice.pc = "dispatch"
    /\ IF advice.provider \in KnownProviders
       THEN \E r \in Responses :
               advice' = [advice EXCEPT !.provider_calls = @ + 1, !.first = r,
                                        !.pc = IF r = "error" THEN "except" ELSE "parse"]
       ELSE advice' = [advice EXCEPT !.pc = "fallback"]
    /\ UNCHANGED AdviceRest

\* advice_json = json.loads(result); return advice_json
ParseResponse ==
    /\ advice.pc = "parse"
    /\ advice' = CASE advice.first \in {"advice", "json"} ->
                       [advice EXCEPT !.pc = "done", !.outcome = advice.first]
                  [] advice.first = "invalid" -> [advice EXCEPT !.pc = "retry"]
                  [] OTHER -> [advice EXCEPT !.pc = "except"]
    /\ UNCHANGED AdviceRest

\* except json.JSONDecodeError: the provider is called again with the guard
\* prompt.
RetryProvider ==
    /\ advice.pc = "retry"
    /\ \E r \in Responses :
          advice' = [advice EXCEPT !.provider_calls = @ + 1, !.second = r,
                                   !.pc = IF r = "error" THEN "except" ELSE "parse_retry"]
    /\ UNCHANGED AdviceRest

\* advice_json = json.loads(retry_result), the fallback on JSONDecodeError
ParseRetry ==
    /\ advice.pc = "parse_retry"
    /\ advice' = CASE advice.second \in {"advice", "json"} ->
                       [advice EXCEPT !.pc = "done", !.outcome = advice.second]
                  [] advice.second = "invalid" -> [advice EXCEPT !.pc = "fallback"]
                  [] OTHER -> [advice EXCEPT !.pc = "except"]
    /\ UNCHANGED AdviceRest

\* `return _get_fallback_advice(...)` inside the try
FallbackInTry ==
    /\ advice.pc = "fallback"
    /\ advice' = IF FallbackRaises(advice.request) THEN [advice EXCEPT !.pc = "except"]
                 ELSE [advice EXCEPT !.pc = "done", !.outcome = "fallback"]
    /\ UNCHANGED AdviceRest

\* except Exception: return _get_fallback_advice(...); what the fallback
\* raises here leaves the function.
ExceptFallback ==
    /\ advice.pc = "except"
    /\ advice' = [advice EXCEPT !.pc = "done",
                                !.outcome = IF FallbackRaises(advice.request) THEN "raised" ELSE "fallback"]
    /\ UNCHANGED AdviceRest

NextAdvice ==
    \/ BuildUserPrompt
    \/ CheckApiKey
    \/ CallProvider
    \/ ParseResponse
    \/ RetryProvider
    \/ ParseRetry
    \/ FallbackInTry
    \/ ExceptFallback

SpecAdvice == InitAdvice /\ [][NextAdvice]_vars

\* ---- _resolve_expression(expr, context, extracted)
\* Expressions of every kind: typed literals, the empty string, names (in
\* the context, extracted, unknown), dotted paths (present, absent, through a
\* number), bracket accesses (literal key, variable key, absent base, a key
\* that is a dict, unclosed), arithmetic (the gap of Example 1, division by
\* zero, an unknown name, a string operand, brackets inside, malformed text).
Expressions ==
    {Lit(Int2V(3)), Lit(Bool(TRUE)), Expr(<<>>),
     Expr(<<"current_month_income">>), Expr(<<"delta_pct">>), Expr(<<"category">>),
     Expr(<<"undefined_field">>), Expr(<<"0.5">>),
     Expr(<<"behavior_metrics", ".", "cashflow_stability">>),
     Expr(<<"behavior_metrics", ".", "missing">>),
     Expr(<<"current_month_income", ".", "x">>),
     Expr(<<"insights", ".">>),
     Expr(<<"category_spend", "[", "Food", "]">>),
     Expr(<<"persona_min_savings", "[", "persona", "]">>),
     Expr(<<"undefined_field", "[", "persona", "]">>),
     Expr(<<"persona_min_savings", "[", "category_spend", "]">>),
     Expr(<<"category_spend", "]", "Food", "[">>),
     GapExpr,
     Expr(<<"current_month_income", "/", "savings_rate">>),
     Expr(<<"undefined_field", "*", "1">>),
     Expr(<<"persona", "+", "1">>),
     Expr(<<"-", "persona">>),
     Expr(<<"category_spend", "[", "Food", "]", "/", "current_month_income">>),
     Expr(<<"(", "current_month_income", "+">>),
     Expr(<<"(", "persona", ")">>),
     Expr(<<"category_spend", "[", "Food">>),
     Expr(<<"behavior_metrics", ".", "cashflow_stability", "*", "1">>),
     Expr(<<"persona">>)}

InitResolve ==
    /\ default_source = <<>>
    /\ registry_instance = NoRegistry
    /\ constructed = NotConstructed
    /\ load_status = "none"
    /\ instance_before = NoRegistry
    /\ loads = 0
    /\ evaluator = NoEvaluator
    /\ calls = 0
    /\ NoCall
    /\ NoRiskCall
    /\ NoThreads
    /\ NoAdvice
    /\ fn = "_resolve_expression"
    /\ args \in [expr : Expressions, data : Inputs, extracted : ExtractedMaps]
    /\ ret = NoReturn

ResolveExpression ==
    /\ fn = "_resolve_expression"
    /\ ~ret.done
    /\ \E v \in {resolve_expression(args.expr, build_context(args.data), args.extracted)} :
          ret' = [done |-> TRUE, value |-> v]
    /\ UNCHANGED <<fn, args>>
    /\ UNCHANGED core_vars

NextResolve == ResolveExpression

SpecResolve == InitResolve /\ [][NextResolve]_vars

\* ================================================================ properties
\* ---- evaluate_all (specification Spec)
\* The place in triggers of the outcome of the k-th enabled rule.
Place(k) == Cardinality({j \in 1..k : trace[j] # "skipped"})

\* A comparison that lacks a key _evaluate_condition indexes.
StructurallyBroken(condition) ==
    /\ condition.type = "comparison"
    /\ ~({"left", "operator", "right"} \subseteq condition.has)

IsUndefinedName(expr, d) ==
    /\ expr.k = "str"
    /\ Len(expr.toks) = 1
    /\ IsName(expr.toks[1])
    /\ expr.toks[1] \notin DOMAIN build_context(d)

\* A complete comparison one side of which names a field that the context
\* of the input does not hold.
ReferencesUndefined(condition, d) ==
    /\ condition.type = "comparison"
    /\ {"left", "operator", "right"} \subseteq condition.has
    /\ IsUndefinedName(condition.left, d) \/ IsUndefinedName(condition.right, d)

IsErrorOutcome(t, id) ==
    /\ t.rule_id = id
    /\ ~t.triggered
    /\ t.severity = Str("low")
    /\ DOMAIN t.params = {"error"}

IsPlainOutcome(t, id) ==
    /\ t.rule_id = id
    /\ ~t.triggered
    /\ t.severity = NoneV
    /\ DOMAIN t.params = {}

InCall == pc \in {"loop", "returned"}

AtMostOncePerId(list) ==
    \A i, j \in 1..Len(list) :
        (i < j /\ list[i].triggered /\ list[j].triggered) => list[i].rule_id # list[j].rule_id

\* C2: the list of one evaluate_all call (while it is built and when it is
\* returned) holds at most one outcome with triggered = true per rule id,
\* also for a catalog that lists an id more than once.
C2_Dedup == AtMostOncePerId(triggers) /\ AtMostOncePerId(result)

\* A returned call in which a second rule of an id triggered and was skipped.
C2_Witness ==
    /\ pc = "returned"
    /\ \E k \in 1..Len(trace) :
          /\ trace[k] = "skipped"
          /\ \E i \in 1..Len(result) : result[i].triggered /\ result[i].rule_id = rules[k].id

SeverityLevels == {Str("none"), Str("low"), Str("medium"), Str("high")}
TriggeredLevels == {Str("low"), Str("medium"), Str("high")}

\* C4 as stated: every outcome evaluate_all returns, triggered or not, and
\* every RiskItem carries a severity among none, low, medium, high.
C4_AsStated ==
    /\ pc = "returned" => \A i \in 1..Len(result) : result[i].severity \in SeverityLevels
    /\ risks.done => \A a \in 1..Len(risks.items) : risks.items[a].severity \in SeverityLevels

\* C4, amended: a triggered outcome carries low, medium or high; the outcome
\* of a rule whose evaluation raised carries "low"; every other non-triggered
\* outcome carries no severity at all (null, which is not the level "none");
\* a RiskItem made of the returned list carries low, medium or high.
C4_SeverityDomain ==
    /\ pc = "returned" =>
          \A i \in 1..Len(result) :
              IF result[i].triggered THEN result[i].severity \in TriggeredLevels
              ELSE IF "error" \in DOMAIN result[i].params THEN result[i].severity = Str("low")
              ELSE result[i].severity = NoneV
    /\ risks.done =>
          /\ ~risks.raised
          /\ \A a \in 1..Len(risks.items) : risks.items[a].severity \in TriggeredLevels

\* A run with a triggered outcome, a non-triggered outcome without severity
\* and a RiskItem.
C4_Witness ==
    /\ pc = "returned"
    /\ risks.done
    /\ risks.items # <<>>
    /\ \E i, j \in 1..Len(result) :
          /\ result[i].triggered
          /\ ~result[j].triggered
          /\ result[j].severity = NoneV

\* C5: a run of evaluate_all and build_risks on the catalog and the input
\* of the run before it produces the same trigger list and the same risk
\* list, element by element.
C5_Determinism ==
    (pc = "returned" /\ prev_run.valid /\ prev_run.registry = evaluator.registry
        /\ prev_run.data = data)
        => /\ result = prev_run.result
           /\ risks.done => risks = prev_run.risks

\* A second complete run on the input of the first, with triggers and risks.
C5_Witness ==
    /\ pc = "returned"
    /\ risks.done
    /\ prev_run.valid
    /\ prev_run.registry = evaluator.registry
    /\ prev_run.data = data
    /\ \E i \in 1..Len(result) : result[i].triggered
    /\ risks.items # <<>>

\* C7 as stated: a call whose input lacks a required base field (here
\* the persona) fails and returns no trigger list.
C7_AsStated == pc = "returned" => ~IsNone(data.persona_type)

Without(context, field) == [f \in DOMAIN context \ {field} |-> context[f]]

\* C7, amended: the context _build_context makes always passes
\* _validate_context (the persona is "default" when the input names none),
\* so the call returns its trigger list; and on a context that lacks a
\* required field _evaluate_rule returns the non-triggered outcome of the rule
\* instead of raising.
C7_ContextNeverFatal ==
    InCall =>
        /\ validate_context(build_context(data))
        /\ IsNone(data.persona_type) => build_context(data).persona = Str("default")
        /\ pc = "returned" => Len(result) = Place(Len(rules))
        /\ \A k \in 1..Len(rules) :
              \A field \in {"persona", "current_month_income", "current_month_expense"} :
                  Validated(rules[k], Without(build_context(data), field))
                      = RuleOk(NotTriggered(rules[k].id))

\* A returned call on an input without persona, with a triggered outcome.
C7_Witness ==
    /\ pc = "returned"
    /\ IsNone(data.persona_type)
    /\ \E i \in 1..Len(result) : result[i].triggered

UniqueIds(registry) ==
    \A i, j \in 1..Len(registry) : i # j => registry[i].id # registry[j].id

CatalogIndex(registry, id) == CHOOSE i \in 1..Len(registry) : registry[i].id = id

Precedes(registry, i, j) ==
    \/ registry[i].priority < registry[j].priority
    \/ registry[i].priority = registry[j].priority /\ i < j

\* C9: for a catalog with unique rule ids the returned list has exactly one
\* outcome per enabled rule and none for a disabled rule, in ascending
\* priority, rules of equal priority in catalog order.
C9_OrderingAndCompleteness ==
    (pc = "returned" /\ UniqueIds(evaluator.registry)) =>
        LET registry == evaluator.registry
            enabled == {i \in 1..Len(registry) : registry[i].enabled}
        IN /\ Len(result) = Cardinality(enabled)
           /\ \A i \in enabled : \E a \in 1..Len(result) : result[a].rule_id = registry[i].id
           /\ \A a \in 1..Len(result) : \E i \in enabled : result[a].rule_id = registry[i].id
           /\ \A a, b \in 1..Len(result) :
                 a < b => Precedes(registry, CatalogIndex(registry, result[a].rule_id),
                                   CatalogIndex(registry, result[b].rule_id))

\* A returned list whose order is not the order of the catalog.
C9_Witness ==
    /\ pc = "returned"
    /\ UniqueIds(evaluator.registry)
    /\ Len(evaluator.registry) = 2
    /\ Len(result) = 2
    /\ result[1].rule_id = evaluator.registry[2].id

\* The number of places of a list that satisfy a test.
CountOf(list, Test(_)) == Cardinality({i \in 1..Len(list) : Test(list[i])})

IsTriggered(t) == t.triggered
IsFailed(step) == step = "failed"

\* evaluate_all has just returned: the evaluator is the one the call ran on
\* (a new one is made only after build_risks).
JustReturned == pc = "returned" /\ ~risks.done

\* C19 as stated: when evaluate_all has returned, also as a second call on
\* the same evaluator, the statistics of the evaluator are the counts of that
\* call alone: total_rules the number of enabled rules, rules_triggered the
\* number of triggered outcomes in the returned list, rules_failed the number
\* of rules whose evaluation raised; and in every state
\* rules_triggered + rules_failed <= total_rules.
C19_StatsOfTheCall ==
    /\ JustReturned =>
          /\ evaluator.evaluation_stats.total_rules = Len(rules)
          /\ evaluator.evaluation_stats.rules_triggered = CountOf(result, IsTriggered)
          /\ evaluator.evaluation_stats.rules_failed = CountOf(trace, IsFailed)
    /\ evaluator.evaluation_stats.rules_triggered + evaluator.evaluation_stats.rules_failed
          <= evaluator.evaluation_stats.total_rules

\* C17: a started evaluate_all call eventually returns; each iteration of
\* its loop goes on to the next enabled rule, so that no rule is evaluated a
\* second time, and at the return each enabled rule was evaluated once.
C17_Termination ==
    /\ (pc = "loop") ~> (pc = "returned")
    /\ [][(pc = "loop" /\ pc' = "loop") => (idx' = idx + 1 /\ Len(trace') = Len(trace) + 1)]_vars
    /\ [](pc = "returned" => (Len(trace) = Len(rules) /\ idx = Len(rules) + 1))

\* A returned call over two enabled rules, one of them with a nested
\* condition, each evaluated once.
C17_Witness ==
    /\ pc = "returned"
    /\ Len(rules) = 2
    /\ Len(trace) = 2
    /\ \E k \in 1..2 : rules[k].condition.type \in {"logical_and", "logical_or"}

\* ---- get_rule_registry (specification SpecLoad)
ClaimedKeys == {"id", "bucket", "condition", "severity", "message_template"}
WellFormed(source) == \A i \in 1..Len(source) : ClaimedKeys \subseteq source[i].has

\* C10: loading a source in which a record lacks id, bucket, condition,
\* severity or message_template fails as a whole: the call raises, the global
\* instance stays what it was before the call, and an installed instance
\* always holds every record of a source without such a record.
C10_AllOrNothing ==
    /\ load_status = "raised" => registry_instance = instance_before
    /\ (load_status \in {"ok", "raised"} /\ ~WellFormed(FileAt(constructed.path)))
          => load_status = "raised"
    /\ ~registry_instance.none =>
          /\ WellFormed(FileAt(registry_instance.path))
          /\ Len(registry_instance.rules) = Len(FileAt(registry_instance.path))

\* A load that raised after well-formed records were taken in, with an
\* instance of an earlier load in place.
C10_Witness ==
    /\ load_status = "raised"
    /\ constructed.rules # <<>>
    /\ ~registry_instance.none
    /\ registry_instance.rules # constructed.rules

\* ---- build_risks (specification SpecRisk)
Built == risk_result.done /\ ~risk_result.raised

\* C3 as stated: every RiskItem has a score in [0, 100], whatever the
\* weights and severities of the rule outcomes.
C3_ScoreBounds ==
    Built =>
        \A a \in 1..Len(risk_result.items) :
            /\ risk_result.items[a].score.n >= 0
            /\ risk_result.items[a].score.n <= 100 * risk_result.items[a].score.d

\* The triggered outcomes of the input that dim_map maps to dim.
MappedTo(dim) ==
    {i \in 1..Len(risk_rules) : risk_rules[i].triggered /\ dim_map(risk_rules[i].rule_id) = dim}

\* C15: the list build_risks returns holds a RiskItem for a dimension if and
\* only if the input holds a triggered rule mapped to it; a dimension without
\* contributors is left out (not even with score 0), every RiskItem is of a
\* dimension, and no dimension has two.
C15_OmittedDimensions ==
    Built =>
        /\ \A k \in 1..Len(Dimensions) :
              (\E a \in 1..Len(risk_result.items) : risk_result.items[a].dimension = Dimensions[k])
                  <=> MappedTo(Dimensions[k]) # {}
        /\ \A a \in 1..Len(risk_result.items) :
              /\ \E k \in 1..Len(Dimensions) : risk_result.items[a].dimension = Dimensions[k]
              /\ risk_result.items[a].contributors # <<>>
              /\ \A b \in 1..Len(risk_result.items) :
                    risk_result.items[a].dimension = risk_result.items[b].dimension => a = b

\* A rule of "savings" that did not trigger and a triggered rule of
\* "deficit": the one RiskItem is the one of "deficit".
C15_Witness ==
    /\ Built
    /\ Len(risk_rules) = 2
    /\ risk_rules[1] = NotTriggered("R-SAVE-LOW-01")
    /\ risk_rules[2].rule_id = "R-DEFICIT-01"
    /\ Len(risk_result.items) = 1
    /\ risk_result.items[1].dimension = "deficit"

\* The multipliers as C8 gives them.
Multiplier(severity) ==
    CASE severity = Str("low") -> 1
      [] severity = Str("medium") -> 2
      [] severity = Str("high") -> 3
      [] OTHER -> 0

RECURSIVE SumOver(_, _, _, _)
\* The sum over the triggered outcomes k.. of the list that map to the
\* dimension of weight * multiplier(severity), or of weight * 3.
SumOver(list, k, dim, highest) ==
    IF k > Len(list) THEN Int2V(0)
    ELSE IF list[k].triggered /\ dim_map(list[k].rule_id) = dim
         THEN RatAdd(RatMul(list[k].weight, IF highest THEN 3 ELSE Multiplier(list[k].severity)),
                     SumOver(list, k + 1, dim, highest))
    ELSE SumOver(list, k + 1, dim, highest)

\* 100 * weighted / highest
Ratio(weighted, highest) == Num(100 * weighted.n * highest.d, weighted.d * highest.n)

\* reported is a multiple of 1/scale at most half of 1/scale away from exact.
RoundedTo(reported, exact, scale) ==
    /\ (reported.n * scale) % reported.d = 0
    /\ 2 * scale * Abs(reported.n * exact.d - exact.n * reported.d) <= reported.d * exact.d

\* C8 as stated: the reported weighted_score, max_possible_score and score
\* are the sums and the quotient themselves, the score 0 when the maximum is 0.
C8_AsStated ==
    Built =>
        \A a \in 1..Len(risk_result.items) :
            LET item == risk_result.items[a]
                weighted == SumOver(risk_rules, 1, item.dimension, FALSE)
                highest == SumOver(risk_rules, 1, item.dimension, TRUE)
            IN /\ RatEq(item.weighted_score, weighted)
               /\ RatEq(item.max_possible_score, highest)
               /\ IF highest.n = 0 THEN item.score = Int2V(0)
                  ELSE RatEq(item.score, Ratio(weighted, highest))

\* C8, amended: the reported weighted_score and max_possible_score are the
\* sums rounded to two decimals; the score is 100 * weighted / maximum of the
\* unrounded sums, rounded to one decimal, when the maximum is positive, and
\* 0 when the maximum is zero or negative.
C8_RiskFormula ==
    Built =>
        \A a \in 1..Len(risk_result.items) :
            LET item == risk_result.items[a]
                weighted == SumOver(risk_rules, 1, item.dimension, FALSE)
                highest == SumOver(risk_rules, 1, item.dimension, TRUE)
            IN /\ RoundedTo(item.weighted_score, weighted, 100)
               /\ RoundedTo(item.max_possible_score, highest, 100)
               /\ IF highest.n > 0 THEN RoundedTo(item.score, Ratio(weighted, highest), 10)
                  ELSE item.score = Int2V(0)

\* Example 3 of the specification: weights 1.0 (high) and 0.5 (medium) on
\* "savings" give 4.0 of 4.5 and the score 88.9.
C8_Witness ==
    /\ Built
    /\ \E a \in 1..Len(risk_result.items) :
          /\ risk_result.items[a].dimension = "savings"
          /\ Len(risk_result.items[a].contributors) = 2
          /\ risk_result.items[a].weighted_score = Int2V(4)
          /\ risk_result.items[a].max_possible_score = Num(9, 2)
          /\ risk_result.items[a].score = Num(889, 10)

StepUp(severity) == IF severity = Str("low") THEN Str("medium") ELSE Str("high")

\* Outcome i is a contributor whose severity can be raised by one step.
Raisable(i) ==
    /\ risk_rules[i].triggered
    /\ dim_map(risk_rules[i].rule_id) # ""
    /\ risk_rules[i].severity \in {Str("low"), Str("medium")}

ItemOf(items, dim) == items[CHOOSE a \in 1..Len(items) : items[a].dimension = dim]

\* The RiskItem of the dimension of outcome i, as built.
Before(i) == ItemOf(risk_result.items, dim_map(risk_rules[i].rule_id))

\* The same RiskItem built of the list in which the severity of outcome i is
\* one step higher.
After(i) ==
    ItemOf(build_risks([risk_rules EXCEPT ![i].severity = StepUp(@)]).items,
           dim_map(risk_rules[i].rule_id))

\* C6 as stated: raising the severity of one contributor by one step
\* strictly increases the reported weighted_score of its dimension and does
\* not decrease the score.
C6_AsStated ==
    Built =>
        \A i \in 1..Len(risk_rules) :
            Raisable(i) => /\ RatLess(Before(i).weighted_score, After(i).weighted_score)
                           /\ RatLeq(Before(i).score, After(i).score)

\* C6, amended: raising the severity of one contributor by one step never
\* decreases the reported weighted_score nor the score when its weight is
\* not negative, strictly increases the weighted_score when its weight is at
\* least 0.02, changes nothing when its weight is 0, and never increases
\* either when its weight is negative.
C6_Monotonicity ==
    Built =>
        \A i \in 1..Len(risk_rules) :
            Raisable(i) =>
                LET weight == risk_rules[i].weight
                IN /\ weight.n >= 0 => /\ RatLeq(Before(i).weighted_score, After(i).weighted_score)
                                       /\ RatLeq(Before(i).score, After(i).score)
                   /\ RatLeq(Num(1, 50), weight)
                         => RatLess(Before(i).weighted_score, After(i).weighted_score)
                   /\ weight.n = 0 => /\ Before(i).weighted_score = After(i).weighted_score
                                      /\ Before(i).score = After(i).score
                   /\ weight.n < 0 => /\ RatLeq(After(i).weighted_score, Before(i).weighted_score)
                                      /\ RatLeq(After(i).score, Before(i).score)

\* A list with a contributor of weight 0 and one of weight 1, both of a
\* severity that can be raised.
C6_Witness ==
    /\ Built
    /\ \E i, j \in 1..Len(risk_rules) :
          /\ Raisable(i)
          /\ Raisable(j)
          /\ risk_rules[i].weight = Int2V(0)
          /\ risk_rules[j].weight = Int2V(1)

\* ---- _evaluate_condition on logical_and (specification SpecCond)
CondDone == fn = "_evaluate_condition" /\ ret.done

\* The outcome of child i of the condition evaluated, on its own.
ChildOutcome(i) == evaluate_condition(args.condition.conditions[i], build_context(args.data))

\* The first child that does not trigger (or raises); one more than the
\* number of children when each one triggers.
FirstStop ==
    LET n == Len(args.condition.conditions)
        stops == {i \in 1..n : ChildOutcome(i).raised \/ ~ChildOutcome(i).triggered}
    IN IF stops = {} THEN n + 1 ELSE CHOOSE i \in stops : \A j \in stops : i <= j

RECURSIVE MergeUpTo(_)
\* The extracted maps of the children 1..k merged in listed order.
MergeUpTo(k) == IF k = 0 THEN EmptyMap ELSE Update(MergeUpTo(k - 1), ChildOutcome(k).extracted)

Evaluated_children ==
    IF FirstStop > Len(args.condition.conditions) THEN FirstStop - 1 ELSE FirstStop

\* C20 as stated: a logical_and triggers iff every child triggers, and the
\* extracted map it returns is the merge of the extracted maps of the
\* children that were evaluated (those up to the first that does not trigger).
C20_AsStated ==
    (CondDone /\ ~ret.raised) =>
        /\ ret.triggered <=> FirstStop > Len(args.condition.conditions)
        /\ ret.extracted = MergeUpTo(Evaluated_children)

\* C20, amended: a logical_and triggers iff every child triggers; the
\* children are evaluated in listed order and none after the first that does
\* not trigger (the outcome is that of the condition cut after that child,
\* and an exception of that child is the outcome); the extracted map is the
\* merge of the maps of all children when the condition triggers and empty
\* when it does not.
C20_AndSemantics ==
    CondDone =>
        LET n == Len(args.condition.conditions)
            cut == And(SubSeq(args.condition.conditions, 1, Evaluated_children))
            alone == evaluate_condition(cut, build_context(args.data))
        IN /\ ret.raised <=> (FirstStop <= n /\ ChildOutcome(FirstStop).raised)
           /\ ~ret.raised => /\ ret.triggered <=> FirstStop > n
                             /\ ret.extracted = IF ret.triggered THEN MergeUpTo(n) ELSE EmptyMap
           /\ ret.raised = alone.raised
           /\ ret.triggered = alone.triggered
           /\ ret.extracted = alone.extracted

\* A condition that does not trigger at its first child, which extracted,
\* with a second child that would raise if it were evaluated.
C20_Witness ==
    /\ CondDone
    /\ Len(args.condition.conditions) = 2
    /\ ~ret.raised
    /\ ~ret.triggered
    /\ FirstStop = 1
    /\ ChildOutcome(1).extracted # EmptyMap
    /\ ChildOutcome(2).raised

\* ---- _resolve_expression (specification SpecResolve)
Resolved == fn = "_resolve_expression" /\ ret.done

\* C13: for every expression and context _resolve_expression returns a
\* value (number, string, bool, dict) or None; no exception of a failing
\* lookup, conversion or evaluation reaches its caller.
C13_ResolverNeverRaises ==
    Resolved => ret.value.t \in {"none", "num", "str", "bool", "dict"}

\* A division by zero inside an arithmetic expression, resolved to None.
C13_Witness ==
    /\ Resolved
    /\ args.expr = Expr(<<"current_month_income", "/", "savings_rate">>)
    /\ build_context(args.data).savings_rate = Int2V(0)
    /\ IsNone(ret.value)

\* ---- _build_context (specification SpecContext)
ContextBuilt == fn = "_build_context" /\ ret.done

\* The defaults of the absent optional fields in context c of input d, with
\* the given default for the confidence of a forecast.
DefaultsOf(d, c, confidence) ==
    /\ IsNone(d.savings_rate) => c.savings_rate = Int2V(0)
    /\ IsNone(d.income_volatility) => c.income_volatility = Int2V(0)
    /\ IsNone(d.emergency_fund_balance) => c.emergency_fund_balance = Int2V(0)
    /\ IsNone(d.behavior_metrics) => c.behavior_metrics = Dict(<<>>)
    /\ ~IsNone(d.behavior_metrics) =>
          \A f \in DOMAIN d.behavior_metrics.m :
              IsNone(d.behavior_metrics.m[f]) => c.behavior_metrics.m[f] = Int2V(0)
    /\ IsNone(d.forecast) => c.forecast = Dict(<<>>)
    /\ ~IsNone(d.forecast) =>
          /\ \A f \in DOMAIN d.forecast.m \ {"confidence"} :
                IsNone(d.forecast.m[f]) => c.forecast.m[f] = Int2V(0)
          /\ IsNone(d.forecast.m.confidence) => c.forecast.m.confidence = confidence
    /\ IsNone(d.insights) => c.insights = Dict(<<>>)
    /\ ~IsNone(d.insights) =>
          \A f \in DOMAIN d.insights.m :
              IsNone(d.insights.m[f]) => c.insights.m[f] = Str("")

\* Every field of the context holds a value (none is absent), and every rule
\* of the catalog has an outcome that no absent field turned into an
\* exception.
Completes ==
    /\ \A f \in DOMAIN ret.context : ~IsNone(ret.context[f])
    /\ \A f \in {"behavior_metrics", "forecast", "insights"} :
          \A k \in DOMAIN ret.context[f].m : ~IsNone(ret.context[f].m[k])
    /\ ret.evaluated =>
          /\ Len(ret.trace) = Len(OptionalCatalog)
          /\ \A i \in 1..Len(ret.trace) : ~ret.trace[i].raised

Recommended == fn = "build_recommendations" /\ ret.done

\* C16: in every reduction recommendation computed with
\* _calculate_smart_cap the cap is strictly below the current category spend
\* and the recommended saving (spend minus cap) is strictly greater than 0.
C16_SmartCapPositive ==
    Recommended =>
        \A i \in 1..Len(ret.recs) :
            /\ RatLess(ret.recs[i].cap, ret.recs[i].current)
            /\ RatLess(Int2V(0), ret.recs[i].savings)

\* ---- generate_advice_with_llm (specification SpecAdvice)
AdviceDone == advice.pc = "done"

\* The provider is called at most twice, and a second time exactly when the
\* first response was not valid JSON.
RetryOnceOnInvalidJson ==
    /\ advice.provider_calls <= 2
    /\ advice.provider_calls = 2 <=> advice.first = "invalid"
    /\ advice.provider_calls = 0 <=> advice.first = ""

\* The provider is unavailable, unknown or without API key, or the retry
\* was invalid JSON too.
MustFallBack ==
    \/ ~advice.api_key
    \/ advice.provider \notin KnownProviders
    \/ advice.first = "error"
    \/ advice.first = "invalid" /\ advice.second \in {"invalid", "error"}

\* C18: generate_advice_with_llm never raises and always returns an advice
\* object; it retries the provider exactly once and only when the first
\* response is not valid JSON; without provider, without API key or with an
\* invalid retry it returns the fallback advice; at most two provider calls.
C18_FallbackProtocol ==
    AdviceDone =>
        /\ advice.outcome \in {"advice", "fallback"}
        /\ RetryOnceOnInvalidJson
        /\ MustFallBack => advice.outcome = "fallback"

\* ---- concurrent calls (specification SpecThreads)
\* The catalogs of the files whose construction completes.
CompleteCatalogs ==
    {RuleRegistry(FileAt(path)).rules : path \in {q \in Paths : ~RuleRegistry(FileAt(q)).raised}}

InFlight(t) == threads[t].pc \in {"got", "made", "loop"}

\* C11: while get_rule_registry(path) replaces the global catalog, the
\* global and the registry of every call are complete catalogs (the old one
\* or the new one, never one still being loaded), the rule list of a call is
\* the list of the enabled rules of the catalog it started with, and the
\* rules it has evaluated are the first rules of that list.
C11_ConsistentSnapshot ==
    /\ loader.pc # "none" => registry_instance.rules \in CompleteCatalogs
    /\ \A t \in DOMAIN threads :
          /\ threads[t].pc # "start" => threads[t].registry.rules \in CompleteCatalogs
          /\ threads[t].pc \in {"loop", "returned"} =>
                /\ threads[t].rules = get_enabled_rules(threads[t].registry.rules)
                /\ threads[t].evaluated = SubSeq(threads[t].rules, 1, threads[t].idx - 1)
          /\ threads[t].pc = "returned" => threads[t].evaluated = threads[t].rules

\* A call in its loop on the catalog of the default path, after the global
\* was replaced by the catalog of custom.json, which the other call has got.
C11_Witness ==
    /\ loader.pc = "idle"
    /\ registry_instance.path = "custom.json"
    /\ threads[1].pc = "loop"
    /\ threads[1].idx = 2
    /\ threads[1].registry.path = "None"
    /\ threads[1].registry.rules # registry_instance.rules
    /\ threads[2].pc = "returned"
    /\ threads[2].registry.path = "custom.json"

FirstTrigger ==
    LET n == Len(args.condition.conditions)
        hits == {i \in 1..n : ChildOutcome(i).triggered}
    IN IF hits = {} THEN n + 1 ELSE CHOOSE i \in hits : \A j \in hits : i <= j

\* C21: a logical_or triggers iff at least one child triggers; the children
\* are evaluated in listed order and none after the first that triggers (only
\* an exception of a child up to that one is the outcome); the extracted map
\* is exactly the map of the first child that triggers, and empty when none
\* triggers.
C21_OrSemantics ==
    CondDone =>
        LET n == Len(args.condition.conditions)
            last == IF FirstTrigger > n THEN n ELSE FirstTrigger
        IN /\ ret.raised <=> \E j \in 1..last : ChildOutcome(j).raised
           /\ ~ret.raised =>
                 /\ ret.triggered <=> FirstTrigger <= n
                 /\ ret.extracted = IF ret.triggered THEN ChildOutcome(FirstTrigger).extracted
                                    ELSE EmptyMap

\* A first child that extracted without triggering, a second child that
\* triggers with its own extracted map.
C21_Witness ==
    /\ CondDone
    /\ args.condition.type = "logical_or"
    /\ Len(args.condition.conditions) = 2
    /\ ret.triggered
    /\ FirstTrigger = 2
    /\ ChildOutcome(1).extracted # EmptyMap
    /\ ChildOutcome(2).extracted # EmptyMap
    /\ ret.extracted = ChildOutcome(2).extracted

\* ---- _evaluate_condition on comparison (specification SpecCompare)
\* Python equality and order of two resolved values: numbers by value (a
\* bool is the number 0 or 1), strings by code point; a number and a string
\* are unequal and not ordered.
Same(l, r) == IF IsNumber(l) /\ IsNumber(r) THEN RatEq(l, r) ELSE l = r
Ordered(l, r) == (IsNumber(l) /\ IsNumber(r)) \/ (l.t = "str" /\ r.t = "str")
Below(l, r) ==
    \/ IsNumber(l) /\ IsNumber(r) /\ RatLess(l, r)
    \/ l.t = "str" /\ r.t = "str" /\ StrRank(l.s) < StrRank(r.s)

\* Whether the operator holds between the two values.
Holds(l, op, r) ==
    \/ op = ">" /\ Below(r, l)
    \/ op = ">=" /\ (Below(r, l) \/ (Ordered(l, r) /\ Same(l, r)))
    \/ op = "<" /\ Below(l, r)
    \/ op = "<=" /\ (Below(l, r) \/ (Ordered(l, r) /\ Same(l, r)))
    \/ op = "==" /\ Same(l, r)
    \/ op = "!=" /\ ~Same(l, r)

LeftSide == resolve_expression(args.condition.left, build_context(args.data), EmptyMap)
RightSide == resolve_expression(args.condition.right, build_context(args.data), EmptyMap)

\* C22: a comparison triggers iff both sides resolve and the operator (one
\* of > >= < <= == !=) holds between the resolved values; with an unresolved
\* side or an unknown operator it does not trigger, and it does not raise.
C22_ComparisonSemantics ==
    CondDone =>
        /\ ~ret.raised
        /\ ret.extracted = EmptyMap
        /\ ret.triggered <=>
              /\ ~IsNone(LeftSide)
              /\ ~IsNone(RightSide)
              /\ Holds(LeftSide, args.condition.operator, RightSide)

\* An unresolved left side under !=, which holds between None and a number
\* in Python, and does not trigger.
C22_Witness ==
    /\ CondDone
    /\ args.condition.type = "comparison"
    /\ args.condition.operator = "!="
    /\ IsNone(LeftSide)
    /\ IsNumber(RightSide)
    /\ ~ret.triggered
    /\ ~ret.raised

\* An unknown operator between two resolved numbers, not triggered.
C22_UnknownOperator ==
    /\ CondDone
    /\ args.condition.type = "comparison"
    /\ args.condition.operator \notin {">", ">=", "<", "<=", "==", "!="}
    /\ IsNumber(LeftSide)
    /\ IsNumber(RightSide)
    /\ ~ret.triggered

\* ---- _calculate_severity (specification SpecSeverity)
SeverityDone == fn = "_calculate_severity" /\ ret.done

\* The metric of the severity definition, resolved.
MetricValue ==
    resolve_expression(args.severity_def.metric, build_context(args.data), args.extracted)

\* A banded definition with its metric and its bands, each band with a
\* threshold that is null or a number and with a severity.
WellFormedBands ==
    /\ args.severity_def.obj
    /\ args.severity_def.type = "banded"
    /\ {"metric", "bands"} \subseteq args.severity_def.has
    /\ \A i \in 1..Len(args.severity_def.bands) :
          /\ args.severity_def.bands[i].has = {"threshold", "severity"}
          /\ IsNone(args.severity_def.bands[i].threshold) \/ IsNumber(args.severity_def.bands[i].threshold)

\* The bands whose threshold is null or <= the metric.
MatchingBands ==
    {i \in 1..Len(args.severity_def.bands) :
        \/ IsNone(args.severity_def.bands[i].threshold)
        \/ RatLeq(args.severity_def.bands[i].threshold, MetricValue)}

\* C23: with a metric resolved to a number, a banded severity is the
\* severity of the first band, in listed order, whose threshold is null or
\* <= the metric, and the severity of the last band when no band matches; it
\* is "low" when the band list is empty or the metric is unresolved.
C23_BandedSeverity ==
    (SeverityDone /\ WellFormedBands /\ (IsNone(MetricValue) \/ IsNumber(MetricValue))) =>
        LET bands == args.severity_def.bands
        IN /\ ~ret.raised
           /\ ret.severity =
                 IF IsNone(MetricValue) \/ bands = <<>> THEN Str("low")
                 ELSE IF MatchingBands = {} THEN bands[Len(bands)].severity
                 ELSE bands[CHOOSE i \in MatchingBands : \A j \in MatchingBands : i <= j].severity

\* A metric of 0.3 on the bands 0.5 -> high, 0.3 -> medium: the second band.
C23_Witness ==
    /\ SeverityDone
    /\ WellFormedBands
    /\ MetricValue = Num(3, 10)
    /\ args.severity_def.bands = <<Band(Num(1, 2), "high"), Band(Num(3, 10), "medium")>>
    /\ ret.severity = Str("medium")

\* No band matches (metric 0.1 below both thresholds): the last band.
C23_LastBand ==
    /\ SeverityDone
    /\ WellFormedBands
    /\ MetricValue = Num(1, 10)
    /\ args.severity_def.bands = <<Band(Num(3, 10), "medium"), Band(Num(1, 2), "high")>>
    /\ MatchingBands = {}
    /\ ret.severity = Str("high")

\* Evaluating band i raises: no threshold key, or a threshold that cannot be
\* ordered with the metric.
BandRaises(i) ==
    LET band == args.severity_def.bands[i]
    IN \/ "threshold" \notin band.has
       \/ ~IsNone(band.threshold) /\ ~Ordered(MetricValue, band.threshold)

\* Band i is the band the walk returns from.
BandMatches(i) ==
    LET band == args.severity_def.bands[i]
    IN /\ "threshold" \in band.has
       /\ \/ IsNone(band.threshold)
          \/ Ordered(MetricValue, band.threshold) /\ ~Below(MetricValue, band.threshold)

\* The walk over the bands ends in an exception: a band raises before any
\* band matches, or the band whose severity is returned has none.
BandsFail ==
    LET bands == args.severity_def.bands
        stops == {i \in 1..Len(bands) : BandRaises(i) \/ BandMatches(i)}
        stop == IF stops = {} THEN Len(bands) ELSE CHOOSE i \in stops : \A j \in stops : i <= j
    IN /\ bands # <<>>
       /\ BandRaises(stop) \/ "severity" \notin bands[stop].has

\* The same for the rules of a threshold definition.
RuleStops(i) ==
    LET rule == args.severity_def.rules[i]
    IN \/ "condition" \notin rule.has
       \/ eval_threshold_condition(MetricValue, rule.condition) \in {"raise", "true"}

RulesFail ==
    LET listed == args.severity_def.rules
        stops == {i \in 1..Len(listed) : RuleStops(i)}
        stop == CHOOSE i \in stops : \A j \in stops : i <= j
    IN /\ stops # {}
       /\ \/ "condition" \notin listed[stop].has
          \/ eval_threshold_condition(MetricValue, listed[stop].condition) = "raise"
          \/ "severity" \notin listed[stop].has

\* A definition of type banded or threshold that cannot be used: a key is
\* missing, the metric is unresolved, or the walk ends in an exception.
Unusable ==
    /\ "type" \in args.severity_def.has
    /\ \/ /\ args.severity_def.type = "banded"
          /\ \/ ~({"metric", "bands"} \subseteq args.severity_def.has)
             \/ IsNone(MetricValue)
             \/ BandsFail
       \/ /\ args.severity_def.type = "threshold"
          /\ \/ ~({"metric", "rules"} \subseteq args.severity_def.has)
             \/ IsNone(MetricValue)
             \/ RulesFail

\* A definition without a type or of a type that is not known, or a fixed
\* definition without a value.
Untyped ==
    \/ "type" \notin args.severity_def.has
    \/ args.severity_def.type \notin {"fixed", "banded", "threshold"}
    \/ args.severity_def.type = "fixed" /\ "value" \notin args.severity_def.has

C24_UnknownType ==
    /\ SeverityDone
    /\ args.severity_def = UnknownSeverity
    /\ ret.severity = Str("medium")

\* ---- _evaluate_condition on regex_match (specification SpecRegex)
\* The field of the condition resolved, and the search of the pattern in it.
FieldText == resolve_expression(args.condition.field, build_context(args.data), EmptyMap)
Match == re_search(args.condition.pattern, FieldText.s)

\* The names of the condition bound by position to the trimmed capture
\* groups; a name beyond the last group is not bound.
Bound ==
    LET names == args.condition.extract
        bound == {i \in 1..Len(names) : i <= Len(Match.groups)}
    IN [k \in {names[i] : i \in bound} |->
           Strip(Match.groups[CHOOSE i \in bound : names[i] = k /\ \A j \in bound : names[j] = k => j <= i])]

\* The threshold of the condition is satisfied by the number the extracted
\* field coerces to.
ThresholdMet ==
    LET thr == args.condition.threshold
    IN /\ thr.field \in DOMAIN Bound
       /\ Bound[thr.field] \in Numerals
       /\ Holds(NumeralValue[Bound[thr.field]], thr.operator, thr.value)

C25_NonNumeric ==
    /\ CondDone
    /\ args.condition.type = "regex_match"
    /\ Match.matched
    /\ "threshold" \in args.condition.has
    /\ args.condition.threshold.field = "category"
    /\ "category" \in DOMAIN ret.extracted
    /\ ~ret.triggered

\* A match that triggers on its threshold.
C25_Triggered ==
    /\ CondDone
    /\ args.condition.type = "regex_match"
    /\ "threshold" \in args.condition.has
    /\ ret.triggered
    /\ ret.extracted = [category |-> "Entertainment", delta_pct |-> "45"]

\* ---- precedence of _resolve_expression (specification SpecResolve)
\* The first form, in the order of the resolver, that an expression has.
FormOf(expr, context, extracted) ==
    IF expr.k = "lit" THEN "literal"
    ELSE IF expr.toks = <<>> THEN "empty"
    ELSE IF Len(expr.toks) = 1 /\ expr.toks[1] \in DOMAIN extracted THEN "extracted"
    ELSE IF Len(expr.toks) = 1 /\ expr.toks[1] \in DOMAIN context THEN "context"
    ELSE IF Has(expr.toks, DotTokens) /\ ~Has(expr.toks, {"["}) THEN "dotted"
    ELSE IF Has(expr.toks, {"["}) /\ Has(expr.toks, {"]"}) /\ ~Has(expr.toks, ArithTokens) THEN "bracket"
    ELSE "arithmetic"

\* C26: _resolve_expression applies the first of: typed literal, extracted
\* key, context key, dotted path, bracket access, arithmetic; a name that is
\* both an extracted key and a context key resolves to the extracted value,
\* as a number when its text is one.
C26_ResolverPrecedence ==
    Resolved =>
        LET context == build_context(args.data)
            form == FormOf(args.expr, context, args.extracted)
            toks == args.expr.toks
        IN /\ form = "literal" => ret.value = args.expr.v
           /\ form = "empty" => IsNone(ret.value)
           /\ form = "extracted" =>
                 ret.value = IF args.extracted[toks[1]] \in Numerals
                             THEN NumeralValue[args.extracted[toks[1]]]
                             ELSE Str(args.extracted[toks[1]])
           /\ form = "context" => ret.value = context[toks[1]]
           /\ form = "dotted" =>
                 ret.value = IF IsDottedPath(toks) THEN Descend(Dict(context), toks, 1) ELSE NoneV
           /\ form = "bracket" => ret.value = BracketAccess(toks, context)
           /\ form = "arithmetic" => ret.value = EvalArithmetic(toks, context)

\* A name that is a key of the extracted values and of the context: the
\* number of the extracted text, not the income of the context.
C26_Witness ==
    /\ Resolved
    /\ args.expr = Expr(<<"current_month_income">>)
    /\ "current_month_income" \in DOMAIN args.extracted
    /\ build_context(args.data).current_month_income = Int2V(4000)
    /\ ret.value = Int2V(45)

\* A dotted path followed by an arithmetic operator: the dotted form is
\* taken, and the path has no value.
C26_DottedBeforeArithmetic ==
    /\ Resolved
    /\ args.expr = Expr(<<"behavior_metrics", ".", "cashflow_stability", "*", "1">>)
    /\ ~IsNone(build_context(args.data).behavior_metrics.m.cashflow_stability)
    /\ IsNone(ret.value)

\* ---- _evaluate_rule on rules with parameters (specification SpecParams)
RuleDone == fn = "_evaluate_rule" /\ ret.done

\* The outcome of the condition of the rule on the input.
ConditionOutcome == evaluate_condition(args.rule.condition, build_context(args.data))

\* Parameter i of the rule, resolved.
ParamValue(i) ==
    resolve_expression(args.rule.params[i].expr, build_context(args.data), ConditionOutcome.extracted)

\* C27: when the condition of a rule triggers, the outcome is triggered
\* whatever its parameters resolve to: a parameter that does not resolve is
\* left out of the params of the outcome, every other parameter is there with
\* its value.
C27_UnresolvedParams ==
    (RuleDone /\ ConditionOutcome.triggered) =>
        /\ ~ret.raised
        /\ ret.trigger.triggered
        /\ \A i \in 1..Len(args.rule.params) :
              IF IsNone(ParamValue(i))
              THEN args.rule.params[i].name \notin DOMAIN ret.trigger.params
              ELSE /\ args.rule.params[i].name \in DOMAIN ret.trigger.params
                   /\ ret.trigger.params[args.rule.params[i].name] = ParamValue(i)
        /\ \A k \in DOMAIN ret.trigger.params :
              \E i \in 1..Len(args.rule.params) : args.rule.params[i].name = k

\* A division by zero first, a parameter that resolves second: the outcome
\* is triggered and carries the second parameter only.
C27_Witness ==
    /\ RuleDone
    /\ Len(args.rule.params) = 2
    /\ args.rule.params[1].name = "ratio"
    /\ build_context(args.data).savings_rate = Int2V(0)
    /\ IsNone(ParamValue(1))
    /\ ~IsNone(ParamValue(2))
    /\ ret.trigger.triggered
    /\ DOMAIN ret.trigger.params = {args.rule.params[2].name}

\* ---- severity of a dimension (specification SpecRisk)
\* The list in reverse order.
Reversed(list) == [i \in 1..Len(list) |-> list[Len(list) + 1 - i]]

\* The highest position in the order none < low < medium < high among the
\* severities of the contributors.
HighestIndex(contributors) ==
    CHOOSE m \in 1..4 :
        /\ \E i \in 1..Len(contributors) : SeverityIndex(contributors[i].severity) = m
        /\ \A i \in 1..Len(contributors) : SeverityIndex(contributors[i].severity) <= m

\* C28: the severity of every RiskItem is the maximum of the severities of
\* its contributors in the order none < low < medium < high, and the same
\* whatever the order of the outcomes in the list.
C28_MaxSeverity ==
    Built =>
        /\ \A i \in 1..Len(risk_result.items) :
              SeverityIndex(risk_result.items[i].severity) =
                 HighestIndex(risk_result.items[i].contributors)
        /\ \E other \in {build_risks(Reversed(risk_rules))} :
              /\ ~other.raised
              /\ Len(other.items) = Len(risk_result.items)
              /\ \A i \in 1..Len(risk_result.items) :
                    /\ other.items[i].dimension = risk_result.items[i].dimension
                    /\ other.items[i].severity = risk_result.items[i].severity

\* Two contributors of the dimension savings, the higher severity first.
C28_Witness ==
    /\ Built
    /\ Len(risk_rules) = 2
    /\ Len(risk_result.items) = 1
    /\ Len(risk_result.items[1].contributors) = 2
    /\ risk_result.items[1].contributors[1].severity = Str("high")
    /\ risk_result.items[1].contributors[2].severity = Str("low")
    /\ risk_result.items[1].severity = Str("high")

\* ---- contributors of the risk (specification SpecRisk)
\* The outcome is triggered and dim_map holds its rule id.
Contributes(r) == r.triggered /\ dim_map(r.rule_id) # ""

\* The outcomes of the list that contribute, in the order of the list.
Contributing(list) == SelectSeq(list, Contributes)

\* The number of contributors in all the RiskItem of a list.
ContributorCount(items) ==
    Cardinality({<<i, j>> \in (1..Len(items)) \X (1..MaxTriggers + 1) :
                    j <= Len(items[i].contributors)})

\* C29: only triggered outcomes of rules that dim_map holds contribute: the
\* RiskItem list is the one of the list without the other outcomes (no score,
\* severity, reason or reference changes), and every contributor is one of
\* the triggered, mapped outcomes.
C29_OnlyTriggeredMapped ==
    Built =>
        /\ risk_result.items = build_risks(Contributing(risk_rules)).items
        /\ ContributorCount(risk_result.items) = Len(Contributing(risk_rules))
        /\ \A i \in 1..Len(risk_result.items) :
              \A j \in 1..Len(risk_result.items[i].contributors) :
                 \E k \in 1..Len(risk_rules) :
                    /\ Contributes(risk_rules[k])
                    /\ risk_result.items[i].contributors[j] = Contributor(risk_rules[k])

\* The outcome of a rule whose evaluation failed (not triggered, severity
\* "low") next to a triggered outcome of the same dimension: one contributor.
C29_Witness ==
    /\ Built
    /\ Len(risk_rules) = 2
    /\ ~risk_rules[1].triggered
    /\ risk_rules[1].severity = Str("low")
    /\ dim_map(risk_rules[1].rule_id) = "savings"
    /\ risk_rules[2].triggered
    /\ dim_map(risk_rules[2].rule_id) = "savings"
    /\ Len(risk_result.items) = 1
    /\ Len(risk_result.items[1].contributors) = 1

\* A triggered outcome of a rule that dim_map does not hold, alone: no
\* RiskItem at all.
C29_Unmapped ==
    /\ Built
    /\ Len(risk_rules) = 1
    /\ risk_rules[1].triggered
    /\ dim_map(risk_rules[1].rule_id) = ""
    /\ risk_result.items = <<>>

\* ---- build_recommendations, ids and linked risks (specification SpecLinks)
Linked == fn = "recommendation_links" /\ ret.done

\* The rules a recommendation comes from.
SourcesOf(id) ==
    UNION {Sections[i].sources : i \in {j \in 1..Len(Sections) : Sections[j].id = id}}

\* C30: in the list build_recommendations returns every recommendation id
\* is there at most once, a recommendation is there only if one of its
\* source rules has a triggered outcome in the rule list, and every id in
\* linked_risks is the id of a RiskItem of the risk list passed in.
C30_RecommendationIntegrity ==
    Linked =>
        /\ \A i, j \in 1..Len(ret.recs) : ret.recs[i].id = ret.recs[j].id => i = j
        /\ \A i \in 1..Len(ret.recs) :
              /\ \E k \in 1..Len(args.outcomes) :
                    /\ args.outcomes[k].triggered
                    /\ args.outcomes[k].rule_id \in SourcesOf(ret.recs[i].id)
              /\ \A l \in 1..Len(ret.recs[i].linked_risks) :
                    \E m \in 1..Len(args.risks) : args.risks[m].id = ret.recs[i].linked_risks[l]

\* Both source rules of the spending alert triggered: one recommendation,
\* linked to the discretionary RiskItem of the list.
C30_Witness ==
    /\ Linked
    /\ Len(args.outcomes) = 2
    /\ args.outcomes[1].rule_id = "R-DISC-HIGH-01"
    /\ args.outcomes[2].rule_id = "R-HSD-01"
    /\ args.outcomes[1].triggered
    /\ args.outcomes[2].triggered
    /\ Len(ret.recs) = 1
    /\ ret.recs[1].id = "REC-SPEND-ALERT-01"
    /\ ret.recs[1].linked_risks = <<"RK-DISCRETIONARY">>

\* Two outcomes of the deficit rule, the second not triggered: no
\* recommendation.
C30_LastOutcome ==
    /\ Linked
    /\ Len(args.outcomes) = 2
    /\ args.outcomes[1].rule_id = "R-DEFICIT-01"
    /\ args.outcomes[2].rule_id = "R-DEFICIT-01"
    /\ args.outcomes[1].triggered
    /\ ~args.outcomes[2].triggered
    /\ ret.recs = <<>>
=============================================================================
